---- MODULE Spec2Model ----
(***************************************************************************)
(* A model of the dependency-graph analyzer of codebase-health:            *)
(*   scripts/circular-deps.py  (graph builder, Tarjan SCC, cycle           *)
(*                              extraction, god modules, layering, main)   *)
(*   scripts/lib/imports.py    (extraction, classification, resolution)    *)
(*   scripts/lib/ignore.py     (ignore rules, the walk)                    *)
(*                                                                         *)
(* Python dicts keep insertion order: a dict is modelled as a function     *)
(* plus, where the order is read, the sequence of its keys.  A Python set  *)
(* of strings iterates in an order that depends on the process's hash      *)
(* seed: every `for x in <set>` is modelled as a free choice of the next   *)
(* element among those not yet iterated.                                   *)
(***************************************************************************)
EXTENDS Integers, Sequences, FiniteSets, TLC

\* ------------------------------------------------------------------------
\* Bounds of the model
\* ------------------------------------------------------------------------

\* Number of nodes of the graphs handed to tarjan_scc.
MaxNodes == 3

\* Number of edges of the graphs handed to tarjan_scc.
MaxEdges == 5

\* Largest simple ring handed to the cycle detector.
MaxRing == 5

\* Size of the project tree: its import statements plus its unreadable or
\* unparseable files.
MaxImports == 2

\* ------------------------------------------------------------------------
\* Generic helpers
\* ------------------------------------------------------------------------

None == "None"

Min(a, b) == IF a <= b THEN a ELSE b

Max(a, b) == IF a >= b THEN a ELSE b

Range(s) == {s[i] : i \in 1..Len(s)}

EmptyDict == [x \in {} |-> 0]

\* d[k] = v for a dict d (a function): d[k] is set or overwritten.
DictSet(d, k, v) == [x \in (DOMAIN d) \cup {k} |-> IF x = k THEN v ELSE d[x]]

\* ------------------------------------------------------------------------
\* State
\* ------------------------------------------------------------------------

VARIABLES
  \* --- the cycle detector (tarjan_scc, extract_cycles_from_scc, analyze) ---
  pc,               \* where the analysis is
  graph,            \* the forward graph: node -> set of nodes
  graph_keys,       \* the keys of graph in dict order
  index_counter,    \* tarjan_scc: index_counter[0]
  stack,            \* tarjan_scc: stack
  on_stack,         \* tarjan_scc: on_stack
  index,            \* tarjan_scc: index
  lowlink,          \* tarjan_scc: lowlink
  sccs,             \* tarjan_scc: sccs
  frames,           \* the call stack of strongconnect
  outer,            \* position of `for node in graph` (line 138)
  entered,          \* how many times strongconnect was entered, per node
  scc_i,            \* analyze: position of `for scc in sccs`
  cycles,           \* analyze: cycles (the files of each record)
  ex,               \* the locals of the running extract_cycles_from_scc
  prev_cycles,      \* the cycles of the previous run on the same graph
  \* --- the project tree (read, never written) ---
  source,           \* scanned file -> its readability and its statements
  go_mod,           \* the module manifest go.mod at the root
  \* --- the graph builder (build_import_graph over walk_source_files) ---
  bpc,              \* where build_import_graph is
  forward,          \* build_import_graph: forward
  forward_keys,     \* the keys of forward in the order they were inserted
  reverse,          \* build_import_graph: reverse
  errors,           \* build_import_graph: errors
  walk_todo,        \* os.walk: the directories still to visit, next first
  walk_files,       \* walk_source_files: filenames of dirpath not yet iterated
  fpath,            \* build_import_graph: fpath, <<>> between files
  imports,          \* build_import_graph: the imports still to iterate
  \* --- detect_god_modules ---
  gpc,              \* where detect_god_modules is
  reverse_graph,    \* its argument: key position -> set of importers
  median_degree,    \* detect_god_modules: median_degree, in halves
  threshold,        \* detect_god_modules: threshold, in halves
  god_todo,         \* the sorted items of in_degrees still to iterate
  god_modules,      \* detect_god_modules: god_modules
  \* --- detect_layering_violations ---
  lpc,              \* where detect_layering_violations is
  layer_graph,      \* its argument graph: file -> set of files
  layer_keys,       \* the keys of layer_graph still to iterate, in dict order
  layer_source,     \* detect_layering_violations: source, <<>> between keys
  layer_targets,    \* the targets of source not yet iterated
  violations,       \* detect_layering_violations: violations
  \* --- main: writing the report ---
  wpc,              \* where main is
  result,           \* main: result, the report to serialise
  buffer,           \* what f.write has accepted and not yet handed to the OS
  output_file,      \* the file at output_path: <<>> absent, else <<chunks>>
  \* --- analyze ---
  apc,              \* where analyze is, after the graph is built
  graph_stats,      \* analyze: the graph_stats of the returned dict
  \* --- one call of a function of lib/ on its own ---
  extra_files,      \* the files the tree holds besides those of the project
  call,             \* the function called and its arguments, <<>> if none
  ret               \* <<>> until the call returns, then <<its value>>

tarjanVars == <<index_counter, stack, on_stack, index, lowlink, sccs, frames,
                outer, entered>>

extractVars == <<scc_i, cycles, ex>>

cycleVars == <<pc, graph, graph_keys, tarjanVars, extractVars, prev_cycles>>

treeVars == <<source, go_mod>>

buildVars == <<treeVars, bpc, forward, forward_keys, reverse, errors,
               walk_todo, walk_files,
               fpath, imports>>

godVars == <<gpc, reverse_graph, median_degree, threshold, god_todo,
             god_modules>>

layerVars == <<lpc, layer_graph, layer_keys, layer_source, layer_targets,
               violations>>

writeVars == <<wpc, result, buffer, output_file>>

analyzeVars == <<apc, graph_stats>>

callVars == <<extra_files, call, ret>>

\* What the cycle detector never touches.
nonCycleVars ==
  <<buildVars, godVars, layerVars, writeVars, analyzeVars,
    callVars>>

\* What the graph builder never touches.
nonBuildVars ==
  <<cycleVars, godVars, layerVars, writeVars, analyzeVars, callVars>>

\* What detect_god_modules never touches.
nonGodVars ==
  <<cycleVars, buildVars, layerVars, writeVars, analyzeVars,
    callVars>>

\* What detect_layering_violations never touches.
nonLayerVars ==
  <<cycleVars, buildVars, godVars, writeVars, analyzeVars,
    callVars>>

\* What the report writer never touches.
nonWriteVars ==
  <<cycleVars, buildVars, godVars, layerVars, analyzeVars, callVars>>

\* What a call of a function of lib/ on its own never touches.
nonCallVars ==
  <<cycleVars, buildVars, godVars, layerVars, writeVars, analyzeVars>>

vars ==
  <<cycleVars, buildVars, godVars, layerVars, writeVars, analyzeVars,
    callVars>>

\* The graph builder is not running.
BuildIdle ==
  /\ source = EmptyDict
  /\ go_mod = [state |-> "absent", lines |-> <<>>]
  /\ bpc = "idle"
  /\ forward = EmptyDict
  /\ forward_keys = <<>>
  /\ reverse = EmptyDict
  /\ errors = <<>>
  /\ walk_todo = <<>>
  /\ walk_files = {}
  /\ fpath = <<>>
  /\ imports = <<>>

\* detect_god_modules is not running.
GodIdle ==
  /\ gpc = "idle"
  /\ reverse_graph = <<>>
  /\ median_degree = 0
  /\ threshold = 0
  /\ god_todo = <<>>
  /\ god_modules = <<>>

\* detect_layering_violations is not running.
LayerIdle ==
  /\ lpc = "idle"
  /\ layer_graph = EmptyDict
  /\ layer_keys = <<>>
  /\ layer_source = <<>>
  /\ layer_targets = {}
  /\ violations = <<>>

\* analyze is not running past the graph builder.
AnalyzeIdle ==
  /\ apc = "idle"
  /\ graph_stats = <<>>

\* No function of lib/ is called on its own.
CallIdle ==
  /\ extra_files = {}
  /\ call = <<>>
  /\ ret = <<>>

\* main is not writing.
WriteIdle ==
  /\ wpc = "idle"
  /\ result = <<>>
  /\ buffer = <<>>
  /\ output_file = <<>>

\* ------------------------------------------------------------------------
\* tarjan_scc (circular-deps.py 98-142)
\* ------------------------------------------------------------------------

Reverse(s) == [i \in 1..Len(s) |-> s[Len(s) + 1 - i]]

\* graph.get(node, set())
Neighbors(node) == IF node \in DOMAIN graph THEN graph[node] ELSE {}

\* The position of node in the stack (a node is pushed once).
StackPos(node) == CHOOSE i \in 1..Len(stack) : stack[i] = node

\* Lines 125-131: the list built by popping the stack down to node.
PopScc(node) == Reverse(SubSeq(stack, StackPos(node), Len(stack)))

KeepSccAny(scc) == Len(scc) >= 1

\* Line 132: only components with more than one node are kept.
KeepScc(scc) == Len(scc) > 1

SeenLowNoStackTest(node, neighbor) == Min(lowlink[node], index[neighbor])

\* Lines 121-122: lowlink[node] after an already indexed neighbor.
SeenLow(node, neighbor) ==
  IF neighbor \in on_stack
  THEN Min(lowlink[node], index[neighbor])
  ELSE lowlink[node]

ChildLowKeep(node, neighbor) == lowlink[node]

\* Line 120: lowlink[node] after the recursive call on neighbor returned.
ChildLow(node, neighbor) == Min(lowlink[node], lowlink[neighbor])

\* Lines 110-115: strongconnect(node) is entered; callers is the call stack
\* of the callers.
Strongconnect(node, callers) ==
  /\ index' = DictSet(index, node, index_counter)
  /\ lowlink' = DictSet(lowlink, node, index_counter)
  /\ index_counter' = index_counter + 1
  /\ stack' = Append(stack, node)
  /\ on_stack' = on_stack \cup {node}
  /\ entered' = DictSet(entered, node,
                        IF node \in DOMAIN entered THEN entered[node] + 1 ELSE 1)
  /\ frames' = Append(callers, [node |-> node, todo |-> Neighbors(node),
                                child |-> <<>>])

\* Lines 138-140: one iteration of `for node in graph`.
TarjanLoop ==
  /\ pc = "tarjan"
  /\ UNCHANGED nonCycleVars
  /\ frames = <<>>
  /\ outer <= Len(graph_keys)
  /\ LET node == graph_keys[outer] IN
       IF node \notin DOMAIN index
       THEN Strongconnect(node, frames)
       ELSE UNCHANGED <<index_counter, stack, on_stack, index, lowlink,
                        frames, entered>>
  /\ outer' = outer + 1
  /\ UNCHANGED <<pc, graph, graph_keys, sccs, extractVars, prev_cycles>>

\* Lines 117-122: one iteration of `for neighbor in graph.get(node, set())`
\* in the innermost running call.
ForNeighbor ==
  /\ pc = "tarjan"
  /\ UNCHANGED nonCycleVars
  /\ frames # <<>>
  /\ LET d == Len(frames)
         top == frames[d]
     IN /\ top.child = <<>>
        /\ \E neighbor \in top.todo :
             LET rest == [frames EXCEPT ![d].todo = top.todo \ {neighbor}] IN
             IF neighbor \notin DOMAIN index
             THEN Strongconnect(neighbor, [rest EXCEPT ![d].child = <<neighbor>>])
             ELSE /\ lowlink' = [lowlink EXCEPT
                                   ![top.node] = SeenLow(top.node, neighbor)]
                  /\ frames' = rest
                  /\ UNCHANGED <<index_counter, stack, on_stack, index, entered>>
  /\ UNCHANGED <<pc, graph, graph_keys, sccs, outer, extractVars, prev_cycles>>

\* Line 120: the recursive call returned to the innermost running call.
AfterCall ==
  /\ pc = "tarjan"
  /\ UNCHANGED nonCycleVars
  /\ frames # <<>>
  /\ LET d == Len(frames)
         top == frames[d]
     IN /\ top.child # <<>>
        /\ lowlink' = [lowlink EXCEPT
                         ![top.node] = ChildLow(top.node, top.child[1])]
        /\ frames' = [frames EXCEPT ![d].child = <<>>]
  /\ UNCHANGED <<pc, graph, graph_keys, index_counter, stack, on_stack, index,
                 sccs, outer, entered, extractVars, prev_cycles>>

\* Lines 124-133: the neighbors are exhausted; the component is popped when
\* node is its root, and strongconnect returns.
CloseNode ==
  /\ pc = "tarjan"
  /\ UNCHANGED nonCycleVars
  /\ frames # <<>>
  /\ LET d == Len(frames)
         top == frames[d]
         scc == PopScc(top.node)
     IN /\ top.child = <<>>
        /\ top.todo = {}
        /\ IF lowlink[top.node] = index[top.node]
           THEN /\ stack' = SubSeq(stack, 1, StackPos(top.node) - 1)
                /\ on_stack' = on_stack \ Range(scc)
                /\ sccs' = IF KeepScc(scc) THEN Append(sccs, scc) ELSE sccs
           ELSE UNCHANGED <<stack, on_stack, sccs>>
        /\ frames' = SubSeq(frames, 1, d - 1)
  /\ UNCHANGED <<pc, graph, graph_keys, index_counter, index, lowlink, outer,
                 entered, extractVars, prev_cycles>>

\* No call of extract_cycles_from_scc is running.
IdleEx ==
  [at |-> "idle", scc |-> <<>>, cycles |-> <<>>, seen_cycle_sets |-> <<>>,
   start_i |-> 0, queue |-> <<>>, visited |-> {}, found |-> FALSE,
   item |-> <<>>, todo |-> {}]

\* Line 142 and analyze 305-306: tarjan_scc returns sccs.
TarjanReturn ==
  /\ pc = "tarjan"
  /\ UNCHANGED nonCycleVars
  /\ frames = <<>>
  /\ outer > Len(graph_keys)
  /\ pc' = "extract"
  /\ scc_i' = 1
  /\ cycles' = <<>>
  /\ ex' = IdleEx
  /\ UNCHANGED <<graph, graph_keys, tarjanVars, prev_cycles>>

\* ------------------------------------------------------------------------
\* extract_cycles_from_scc (circular-deps.py 145-181), called by analyze
\* (304-312)
\* ------------------------------------------------------------------------

\* Line 153: components up to this size are searched for elementary cycles.
SmallScc == 5

\* analyze 309-312: the record of one cycle.
CycleRecord(cycle_path) == [files |-> cycle_path, length |-> Len(cycle_path)]

CycleRecords(paths) == [i \in 1..Len(paths) |-> CycleRecord(paths[i])]

\* analyze 307-308 and lines 151-156, 180-181: extract_cycles_from_scc is
\* called on the next component; a large component is returned whole.
ExtractCall ==
  /\ pc = "extract"
  /\ UNCHANGED nonCycleVars
  /\ ex.at = "idle"
  /\ scc_i <= Len(sccs)
  /\ LET scc == sccs[scc_i] IN
       IF Len(scc) <= SmallScc
       THEN /\ ex' = [IdleEx EXCEPT !.at = "for_start", !.scc = scc,
                                    !.start_i = 1]
            /\ UNCHANGED <<scc_i, cycles>>
       ELSE /\ cycles' = cycles \o CycleRecords(<<scc>>)
            /\ scc_i' = scc_i + 1
            /\ UNCHANGED ex
  /\ UNCHANGED <<pc, graph, graph_keys, tarjanVars, prev_cycles>>

NoFallback(ex_cycles, scc) == ex_cycles

\* Line 179: the cycles found, or the whole component when none was found.
ExtractResult(ex_cycles, scc) == IF ex_cycles # <<>> THEN ex_cycles ELSE <<scc>>

\* Lines 158-162 and 179: one iteration of `for start in scc` begins, or
\* the function returns to analyze, which records the cycles.
ForStart ==
  /\ pc = "extract"
  /\ UNCHANGED nonCycleVars
  /\ ex.at = "for_start"
  /\ IF ex.start_i <= Len(ex.scc)
     THEN LET start == ex.scc[ex.start_i] IN
          /\ ex' = [ex EXCEPT !.at = "while",
                              !.queue = << <<start, <<start>>>> >>,
                              !.visited = {start},
                              !.found = FALSE]
          /\ UNCHANGED <<scc_i, cycles>>
     ELSE /\ cycles' = cycles \o CycleRecords(ExtractResult(ex.cycles, ex.scc))
          /\ scc_i' = scc_i + 1
          /\ ex' = IdleEx
  /\ UNCHANGED <<pc, graph, graph_keys, tarjanVars, prev_cycles>>

\* Lines 164-165: the test of `while queue and not found`, and queue.pop(0).
While ==
  /\ pc = "extract"
  /\ UNCHANGED nonCycleVars
  /\ ex.at = "while"
  /\ IF ex.queue # <<>> /\ ~ex.found
     THEN ex' = [ex EXCEPT !.at = "for_nbr",
                           !.item = Head(ex.queue),
                           !.queue = Tail(ex.queue),
                           !.todo = Neighbors(Head(ex.queue)[1])]
     ELSE ex' = [ex EXCEPT !.at = "for_start",
                           !.start_i = ex.start_i + 1,
                           !.queue = <<>>, !.visited = {}, !.found = FALSE,
                           !.item = <<>>, !.todo = {}]
  /\ UNCHANGED <<pc, graph, graph_keys, tarjanVars, scc_i, cycles, prev_cycles>>

ClosesCycleAnyLength(neighbor, start, path) == neighbor = start

ClosesCycleNever(neighbor, start, path) == FALSE

\* Line 167: the neighbor closes a cycle back to start.
ClosesCycle(neighbor, start, path) == neighbor = start /\ Len(path) > 1

SeenNever(cycle_key, seen) == FALSE

SeenAlways(cycle_key, seen) == TRUE

\* Line 170: a cycle over this set of files was already recorded.
SeenCycle(cycle_key, seen) == cycle_key \in Range(seen)

\* Lines 166-177: one iteration of `for neighbor in graph.get(current, set())`.
ForNbr ==
  /\ pc = "extract"
  /\ UNCHANGED nonCycleVars
  /\ ex.at = "for_nbr"
  /\ IF ex.todo = {}
     THEN ex' = [ex EXCEPT !.at = "while"]
     ELSE \E neighbor \in ex.todo :
            LET start == ex.scc[ex.start_i]
                path == ex.item[2]
                cycle_key == Range(path)
            IN IF ClosesCycle(neighbor, start, path)
               THEN ex' = [ex EXCEPT
                      !.seen_cycle_sets =
                         IF SeenCycle(cycle_key, ex.seen_cycle_sets) THEN @
                         ELSE Append(@, cycle_key),
                      !.cycles =
                         IF SeenCycle(cycle_key, ex.seen_cycle_sets) THEN @
                         ELSE Append(@, path),
                      !.found = TRUE,
                      !.todo = {},
                      !.at = "while"]
               ELSE IF neighbor \in Range(ex.scc) /\ neighbor \notin ex.visited
               THEN ex' = [ex EXCEPT
                      !.visited = @ \cup {neighbor},
                      !.queue = Append(@, <<neighbor, Append(path, neighbor)>>),
                      !.todo = @ \ {neighbor}]
               ELSE ex' = [ex EXCEPT !.todo = @ \ {neighbor}]
  /\ UNCHANGED <<pc, graph, graph_keys, tarjanVars, scc_i, cycles, prev_cycles>>

\* analyze 307-312: `for scc in sccs` is over; the cycle list is final.
AnalyzeCyclesDone ==
  /\ pc = "extract"
  /\ UNCHANGED nonCycleVars
  /\ ex.at = "idle"
  /\ scc_i > Len(sccs)
  /\ pc' = "done"
  /\ UNCHANGED <<graph, graph_keys, tarjanVars, extractVars, prev_cycles>>

\* The cycle detector is not running.
CyclesIdle ==
  /\ pc = "idle"
  /\ graph = EmptyDict
  /\ graph_keys = <<>>
  /\ index_counter = 0
  /\ stack = <<>>
  /\ on_stack = {}
  /\ index = EmptyDict
  /\ lowlink = EmptyDict
  /\ sccs = <<>>
  /\ frames = <<>>
  /\ outer = 1
  /\ entered = EmptyDict
  /\ scc_i = 0
  /\ cycles = <<>>
  /\ ex = IdleEx
  /\ prev_cycles = <<>>

\* The state in which tarjan_scc is called.
TarjanStart ==
  /\ index_counter = 0
  /\ stack = <<>>
  /\ on_stack = {}
  /\ index = EmptyDict
  /\ lowlink = EmptyDict
  /\ sccs = <<>>
  /\ frames = <<>>
  /\ outer = 1
  /\ entered = EmptyDict

\* The analysis is run again on the same graph (a second run of the program
\* on an unchanged tree); the cycles of the run before are remembered.
Rerun ==
  /\ pc = "done"
  /\ UNCHANGED nonCycleVars
  /\ prev_cycles' = <<cycles>>
  /\ pc' = "tarjan"
  /\ index_counter' = 0
  /\ stack' = <<>>
  /\ on_stack' = {}
  /\ index' = EmptyDict
  /\ lowlink' = EmptyDict
  /\ sccs' = <<>>
  /\ frames' = <<>>
  /\ outer' = 1
  /\ entered' = EmptyDict
  /\ scc_i' = 0
  /\ cycles' = <<>>
  /\ ex' = IdleEx
  /\ UNCHANGED <<graph, graph_keys>>

\* ------------------------------------------------------------------------
\* Specification of the cycle detector over every small graph
\* ------------------------------------------------------------------------

EdgeCount(g) ==
  Cardinality({e \in (DOMAIN g) \X (DOMAIN g) : e[2] \in g[e[1]]})

\* The graphs of n nodes; by renaming the nodes the dict order is 1..n.
Graphs(n) == {g \in [1..n -> SUBSET (1..n)] : EdgeCount(g) <= MaxEdges}

CyclesStart ==
  /\ pc = "tarjan"
  /\ TarjanStart
  /\ scc_i = 0
  /\ cycles = <<>>
  /\ ex = IdleEx
  /\ prev_cycles = <<>>

InitCycles ==
  /\ \E n \in 0..MaxNodes :
       /\ graph \in Graphs(n)
       /\ graph_keys = [i \in 1..n |-> i]
  /\ CyclesStart
  /\ BuildIdle
  /\ GodIdle
  /\ LayerIdle
  /\ WriteIdle
  /\ AnalyzeIdle
  /\ CallIdle

NextCycles ==
  \/ TarjanLoop
  \/ ForNeighbor
  \/ AfterCall
  \/ CloseNode
  \/ TarjanReturn
  \/ ExtractCall
  \/ ForStart
  \/ While
  \/ ForNbr
  \/ AnalyzeCyclesDone
  \/ Rerun

SpecCycles == InitCycles /\ [][NextCycles]_vars

\* ------------------------------------------------------------------------
\* Specification of the cycle detector over simple rings
\* ------------------------------------------------------------------------

\* The ring 1 -> p[2] -> ... -> p[k] -> 1 over the nodes 1..k, where p is a
\* permutation of 1..k with p[1] = 1.
RingGraph(k, p) ==
  [n \in 1..k |-> {p[((CHOOSE i \in 1..k : p[i] = n) % k) + 1]}]

InitRing ==
  /\ \E k \in 2..MaxRing :
       \E p \in {q \in Permutations(1..k) : q[1] = 1} :
         /\ graph = RingGraph(k, p)
         /\ graph_keys = [i \in 1..k |-> i]
  /\ CyclesStart
  /\ BuildIdle
  /\ GodIdle
  /\ LayerIdle
  /\ WriteIdle
  /\ AnalyzeIdle
  /\ CallIdle

SpecRing == InitRing /\ [][NextCycles]_vars

\* ------------------------------------------------------------------------
\* Graph theory used to state the claims
\* ------------------------------------------------------------------------

Nodes == DOMAIN graph

Succ(S) == UNION {graph[x] : x \in S}

RECURSIVE Closure(_)
Closure(S) == IF Succ(S) \subseteq S THEN S ELSE Closure(S \cup Succ(S))

\* The nodes reachable from n by a path of at least one edge.
ReachPlus(n) == Closure(graph[n])

\* The nodes reachable from n by a path of any length.
Reach(n) == Closure({n})

\* The strongly connected component of n.
SccOf(n) == {m \in Reach(n) : n \in Reach(m)}

StrongComponents == {SccOf(n) : n \in Nodes}

Acyclic == \A n \in Nodes : n \notin ReachPlus(n)

TarjanReturned == pc \in {"extract", "done"}

\* C2: when tarjan_scc has returned, the returned lists are duplicate-free
\* and pairwise disjoint, and their node sets are exactly the strongly
\* connected components of the graph that have more than one member.
C2_TarjanExact ==
  TarjanReturned =>
    /\ \A i \in 1..Len(sccs) : Cardinality(Range(sccs[i])) = Len(sccs[i])
    /\ \A i, j \in 1..Len(sccs) :
         i # j => Range(sccs[i]) \cap Range(sccs[j]) = {}
    /\ {Range(sccs[i]) : i \in 1..Len(sccs)}
         = {C \in StrongComponents : Cardinality(C) > 1}

\* A graph of three nodes with a two-node component and a node outside it.
C2_Witness ==
  /\ pc = "done"
  /\ Cardinality(Nodes) = 3
  /\ Len(sccs) = 1
  /\ Len(sccs[1]) = 2
  /\ EdgeCount(graph) >= 4

\* C3: for an acyclic graph the finished analysis has an empty cycle list.
C3_AcyclicNoCycles == (pc = "done" /\ Acyclic) => cycles = <<>>

\* An acyclic graph with a path of two edges and a shortcut.
C3_Witness ==
  /\ pc = "done"
  /\ Acyclic
  /\ EdgeCount(graph) >= 3
  /\ cycles = <<>>

\* C4: for a simple ring of k files the finished analysis reports exactly
\* one cycle, of length k, with all k files.
C4_RingOneCycle ==
  pc = "done" =>
    /\ Len(cycles) = 1
    /\ cycles[1].length = Cardinality(Nodes)
    /\ Len(cycles[1].files) = Cardinality(Nodes)
    /\ Range(cycles[1].files) = Nodes

\* The ring 1 -> 3 -> 2 -> 1, reported once.
C4_Witness ==
  /\ pc = "done"
  /\ graph = RingGraph(3, <<1, 3, 2>>)
  /\ Len(cycles) = 1
  /\ cycles[1].length = 3

\* C8: a second run on the same graph ends with the same cycle list, in the
\* same order, as the run before.
C8_SameCyclesEveryRun ==
  (pc = "done" /\ prev_cycles # <<>>) => cycles = prev_cycles[1]

\* ========================================================================
\* The graph builder
\* ========================================================================

\* ------------------------------------------------------------------------
\* Paths.  A path is the sequence of its components from "/"; a component
\* is the sequence of the pieces of its name between dots: "a.py" is
\* <<"a", "py">>, "pkg" is <<"pkg">>, ".git" is <<"", "git">>.  The
\* components "." and ".." of a relative path are <<".">> and <<"..">>.
\* ------------------------------------------------------------------------

\* os.path.abspath(args.root): the project root, /r.
Root == << <<"r">> >>

\* os.path.dirname of an absolute path; the dirname of "/" is "/".
Dirname(path) == IF path = <<>> THEN <<>> ELSE SubSeq(path, 1, Len(path) - 1)

\* os.path.join(base, *parts) for relative parts.
Join(base, parts) == base \o parts

\* path + ext, for a string path without a trailing separator.
AddExt(path, ext) ==
  IF path = <<>> THEN << <<"", ext>> >>
  ELSE [path EXCEPT ![Len(path)] = Append(@, ext)]

RECURSIVE CommonLen(_, _)
CommonLen(a, b) ==
  IF a = <<>> \/ b = <<>> \/ Head(a) # Head(b) THEN 0
  ELSE 1 + CommonLen(Tail(a), Tail(b))

RelpathIdentity(path, start) == path

\* os.path.relpath(path, start) for two normalised absolute paths.
Relpath(path, start) ==
  LET c == CommonLen(path, start)
      ups == [i \in 1..(Len(start) - c) |-> <<"..">>]
      rel == ups \o SubSeq(path, c + 1, Len(path))
  IN IF rel = <<>> THEN << <<".">> >> ELSE rel

\* os.path.splitext(name)[1] without its dot; "" when there is none (the
\* leading dots of a name start no extension).
Splitext1(name) ==
  IF Len(name) >= 2 /\ \E i \in 1..(Len(name) - 1) : name[i] # ""
  THEN name[Len(name)] ELSE ""

\* str.lower() on the extensions and the directory names of the model.
Lower(str) ==
  CASE str = "PY" -> "py"
    [] str = "GO" -> "go"
    [] str = "Utils" -> "utils"
    [] OTHER -> str

\* ------------------------------------------------------------------------
\* The project tree
\* ------------------------------------------------------------------------

APy == Join(Root, << <<"a", "py">> >>)

BPy == Join(Root, << <<"pkg">>, <<"b", "py">> >>)

MGo == Join(Root, << <<"m", "go">> >>)

JJava == Join(Root, << <<"J", "java">> >>)

CPy == Join(Root, << <<"build">>, <<"c", "py">> >>)

GoMod == Join(Root, << <<"go", "mod">> >>)

\* build/gen/d.py: a file two levels below an ignored directory.
DPy == Join(Root, << <<"build">>, <<"gen">>, <<"d", "py">> >>)

\* Mod.PY at the root: an extension in capitals.
UpperPy == Join(Root, << <<"Mod", "PY">> >>)

\* A file beside the root, outside the project.
OutsidePy == << <<"a", "py">> >>

\* The files whose text the builder may read.
Scanned == {APy, BPy, MGo}

\* The regular files of the tree.
RegularFiles ==
  {APy, BPy, MGo, JJava, CPy, DPy, UpperPy, OutsidePy}
    \cup (IF go_mod.state = "absent" THEN {} ELSE {GoMod})
    \cup extra_files

\* os.path.isfile
IsFile(path) == path \in RegularFiles

\* os.path.isdir: "/" and every directory that holds a file.
IsDir(path) ==
  \E f \in RegularFiles : \E n \in 0..(Len(f) - 1) : path = SubSeq(f, 1, n)

\* The entries of a directory (os.scandir in os.walk).
Dirnames(dirpath) ==
  {d \in {SubSeq(f, 1, Len(dirpath) + 1) :
            f \in {g \in RegularFiles : Len(g) > Len(dirpath)}} :
     /\ IsDir(d)
     /\ Dirname(d) = dirpath}

Filenames(dirpath) == {f \in RegularFiles : Dirname(f) = dirpath}

\* ------------------------------------------------------------------------
\* lib/ignore.py
\* ------------------------------------------------------------------------

Name(str) == [kind |-> "name", name |-> <<str>>]

DotName(str) == [kind |-> "name", name |-> <<"", str>>]

StarDot(str) == [kind |-> "suffix", ext |-> str]

\* The path-shaped pattern <dir>/*.<ext>, such as docs/*.md.
DirStarDot(dir, str) == [kind |-> "path", dir |-> dir, ext |-> str]

\* Lines 12-31, with load_ignore_patterns(None) (lines 47-59).
DEFAULT_IGNORE_PATTERNS ==
  << DotName("git"), Name("node_modules"), Name("__pycache__"),
     DotName("health-scan"), Name("dist"), Name("build"), DotName("venv"),
     Name("venv"), DotName("mypy_cache"), StarDot("pyc"), DotName("tox"),
     DotName("eggs"), StarDot("egg-info"), DotName("next"), DotName("nuxt"),
     Name("coverage"), DotName("nyc_output"), Name("target") >>

\* fnmatch.fnmatch(part, clean) for one path component.
FnmatchPart(part, clean) ==
  CASE clean.kind = "name" -> part = clean.name
    [] clean.kind = "suffix" -> Len(part) >= 2 /\ part[Len(part)] = clean.ext
    [] clean.kind = "path" -> FALSE   \* a component holds no separator

\* fnmatch.fnmatch(rel, clean) for a relative path: a name without a
\* wildcard matches only the whole string; "*" also matches separators.
FnmatchRel(rel, clean) ==
  CASE clean.kind = "name" -> rel = <<clean.name>>
    [] clean.kind = "suffix" -> FnmatchPart(rel[Len(rel)], clean)
    [] clean.kind = "path" ->
         \* fnmatch translates <dir>/*.<ext> to the regular expression
         \* <dir>/.*\.<ext> : the text starts with "<dir>/" and ends with
         \* ".<ext>", whatever lies between.
         /\ Len(rel) >= 2
         /\ rel[1] = <<clean.dir>>
         /\ Len(rel[Len(rel)]) >= 2
         /\ rel[Len(rel)][Len(rel[Len(rel)])] = clean.ext

ShouldIgnoreNothing(path, patterns, root) == FALSE

\* Lines 62-99: should_ignore.
ShouldIgnore(path, patterns, root) ==
  LET rel == Relpath(path, root) IN
  \E i \in 1..Len(patterns) :
    \/ \E j \in 1..Len(rel) : FnmatchPart(rel[j], patterns[i])
    \/ FnmatchRel(rel, patterns[i])

\* Lines 103-118: ALL_SOURCE_EXTENSIONS.
ALL_SOURCE_EXTENSIONS ==
  {"py", "js", "jsx", "mjs", "cjs", "ts", "tsx", "mts", "cts", "go", "rs",
   "java", "rb", "php", "c", "h", "cpp", "hpp", "cc", "hh", "cxx", "hxx"}

\* Lines 149-150: the test that lets walk_source_files yield fpath.
WalkYields(path, patterns, root) ==
  /\ Splitext1(path[Len(path)]) \in ALL_SOURCE_EXTENSIONS
  /\ ~ShouldIgnore(path, patterns, root)

\* ------------------------------------------------------------------------
\* lib/imports.py: language, extraction
\* ------------------------------------------------------------------------

\* Lines 36-48: _EXT_TO_LANG.
EXT_TO_LANG ==
  [ext \in {"py", "js", "jsx", "mjs", "cjs", "ts", "tsx", "mts", "cts",
            "go", "rs"} |->
     CASE ext = "py" -> "python"
       [] ext \in {"js", "jsx", "mjs", "cjs"} -> "javascript"
       [] ext \in {"ts", "tsx", "mts", "cts"} -> "typescript"
       [] ext = "go" -> "go"
       [] ext = "rs" -> "rust"]

\* Lines 51-54: detect_language.
DetectLanguage(file_path) ==
  LET ext == Lower(Splitext1(file_path[Len(file_path)])) IN
  IF ext \in DOMAIN EXT_TO_LANG THEN EXT_TO_LANG[ext] ELSE None

\* The text of a Python file is the sequence of its import statements, each
\* written at the top level (guard "none": one line), in the body of
\*   if TYPE_CHECKING:            (guard "tc": two lines)
\* or in the else branch of
\*   if TYPE_CHECKING: pass       (guard "else": four lines).
Height(stmt) ==
  CASE stmt.guard = "none" -> 1
    [] stmt.guard = "tc" -> 2
    [] stmt.guard = "else" -> 4

RECURSIVE FirstLine(_, _)
FirstLine(stmts, i) ==
  IF i = 1 THEN 1 ELSE FirstLine(stmts, i - 1) + Height(stmts[i - 1])

\* node.lineno of the import statement of stmts[i].
ImportLine(stmts, i) ==
  FirstLine(stmts, i) +
    (CASE stmts[i].guard = "none" -> 0
       [] stmts[i].guard = "tc" -> 1
       [] stmts[i].guard = "else" -> 3)

\* Lines 107-120: the line ranges of the bodies of the TYPE_CHECKING ifs.
TypeCheckingRanges(stmts) ==
  {[lo |-> FirstLine(stmts, i) + 1, hi |-> FirstLine(stmts, i) + 1] :
     i \in {j \in 1..Len(stmts) : stmts[j].guard \in {"tc", "else"}}}

InTypeCheckingNever(stmts, lineno) == FALSE

\* Lines 122-123: _in_type_checking.
InTypeChecking(stmts, lineno) ==
  \E r \in TypeCheckingRanges(stmts) : r.lo <= lineno /\ lineno <= r.hi

RECURSIVE Select(_, _, _)
Select(stmts, i, nested) ==
  IF i > Len(stmts) THEN <<>>
  ELSE (IF (stmts[i].guard # "none") = nested THEN <<i>> ELSE <<>>)
         \o Select(stmts, i + 1, nested)

\* ast.walk is breadth-first: the top-level imports, then the nested ones.
AstWalk(stmts) == Select(stmts, 1, FALSE) \o Select(stmts, 1, TRUE)

\* Lines 125-149: one Import per imported name (alias is never read).
ExtractPythonImports(file_path, stmts) ==
  [k \in 1..Len(stmts) |->
     LET i == AstWalk(stmts)[k] IN
     [source_file |-> file_path,
      target |-> stmts[i].target,
      is_type_only |-> InTypeChecking(stmts, ImportLine(stmts, i)),
      line |-> ImportLine(stmts, i)]]

\* Lines 213-237: the text of a Go file is the sequence of its imports.
ExtractGoImports(file_path, stmts) ==
  [k \in 1..Len(stmts) |->
     [source_file |-> file_path, target |-> stmts[k].target,
      is_type_only |-> FALSE, line |-> k]]

\* A call that returns value, and one that raises.
Returns(value) == [raised |-> "", value |-> value]

Raises(exception) == [raised |-> exception, value |-> <<>>]

\* Lines 264-294 with 99-105: extract_imports.  An unreadable file and a
\* SyntaxError give the empty list; any other exception of ast.parse
\* (RecursionError on deeply nested source, ValueError, MemoryError) is not
\* caught here.
ExtractImports(file_path, language) ==
  LET src == source[file_path] IN
  IF src.status = "unreadable" THEN Returns(<<>>)
  ELSE IF language = "python"
  THEN (CASE src.status = "syntax_error" -> Returns(<<>>)
          [] src.status = "parse_raises" -> Raises("RecursionError")
          [] OTHER -> Returns(ExtractPythonImports(file_path, src.stmts)))
  ELSE IF language = "go" THEN Returns(ExtractGoImports(file_path, src.stmts))
  ELSE Returns(<<>>)   \* the tree holds no file of another language

\* ------------------------------------------------------------------------
\* lib/imports.py: classification and resolution
\* ------------------------------------------------------------------------

\* Lines 63-96: _PYTHON_STDLIB (the names the tree's imports can meet).
PYTHON_STDLIB == {"os", "sys", "json", "re", "typing", "test", "types"}

\* A Python target is the sequence of the pieces between its dots:
\* "pkg.b" is <<"pkg", "b">>, ".b" is <<"", "b">>, ".." is <<"", "", "">>.
\* target.startswith(".")
StartsWithDot(target) == Len(target) >= 2 /\ target[1] = ""

\* Lines 390-395: the number of leading dots.
Dots(target) ==
  IF \A i \in 1..Len(target) : target[i] = "" THEN Len(target) - 1
  ELSE (CHOOSE i \in 1..Len(target) :
          /\ target[i] # ""
          /\ \A j \in 1..(i - 1) : target[j] = "") - 1

\* Lines 396, 404: module_part.split(".") if module_part else [].
ModuleParts(target) ==
  IF \A i \in 1..Len(target) : target[i] = "" THEN <<>>
  ELSE SubSeq(target, Dots(target) + 1, Len(target))

\* The path components named by a list of name strings.
Components(parts) == [i \in 1..Len(parts) |-> <<parts[i]>>]

AscendNowhere(base, n) == base

\* Lines 397-399: base = os.path.dirname(base), dots - 1 times.
RECURSIVE Ascend(_, _)
Ascend(base, n) == IF n <= 0 THEN base ELSE Ascend(Dirname(base), n - 1)

\* The first line of go.mod that starts with "module ", 0 when there is
\* none.  A line is the list of its whitespace-separated fields, a module
\* path the list of its segments.
ModuleLine ==
  IF \E i \in 1..Len(go_mod.lines) : go_mod.lines[i][1] = "module"
  THEN CHOOSE i \in 1..Len(go_mod.lines) :
         /\ go_mod.lines[i][1] = "module"
         /\ \A j \in 1..(i - 1) : go_mod.lines[j][1] # "module"
  ELSE 0

\* target.startswith(module_path), on whole path segments.
StartsWith(target, module_path) ==
  /\ Len(module_path) <= Len(target)
  /\ SubSeq(target, 1, Len(module_path)) = module_path

\* Lines 297-351: is_internal_import.  line.split()[1] raises IndexError on
\* a "module " line without a path; only OSError is caught there.
IsInternalImport(target, root, source_file, language) ==
  IF language = "python"
  THEN IF StartsWithDot(target) THEN Returns(TRUE)
       ELSE IF target[1] \in PYTHON_STDLIB THEN Returns(FALSE)
       ELSE Returns(\/ IsDir(Join(root, << <<target[1]>> >>))
                    \/ IsFile(Join(root, << <<target[1], "py">> >>)))
  ELSE IF language = "go"
  THEN IF ~IsFile(Join(root, << <<"go", "mod">> >>)) THEN Returns(FALSE)
       ELSE IF go_mod.state = "unreadable" THEN Returns(FALSE)
       ELSE IF ModuleLine = 0 THEN Returns(FALSE)
       ELSE IF Len(go_mod.lines[ModuleLine]) < 2 THEN Raises("IndexError")
       ELSE Returns(StartsWith(target, go_mod.lines[ModuleLine][2]))
  ELSE Returns(FALSE)   \* the tree holds no file of another language

ResolvePythonImportToSource(target, source_file, root) == <<source_file>>

\* Lines 386-417: _resolve_python_import.
ResolvePythonImport(target, source_file, root) ==
  LET base == IF StartsWithDot(target)
              THEN Ascend(Dirname(source_file), Dots(target) - 1)
              ELSE root
      parts == IF StartsWithDot(target) THEN ModuleParts(target) ELSE target
      path == Join(base, Components(parts))
      init == Join(path, << <<"__init__", "py">> >>)
      mod == AddExt(path, "py")
  IN IF IsFile(init) THEN <<init>>
     ELSE IF IsFile(mod) THEN <<mod>>
     ELSE <<>>

\* Lines 448-468: _resolve_go_import.
ResolveGoImport(target, root) ==
  IF ~IsFile(Join(root, << <<"go", "mod">> >>)) THEN Returns(<<>>)
  ELSE IF go_mod.state = "unreadable" THEN Returns(<<>>)
  ELSE IF ModuleLine = 0 THEN Returns(<<>>)
  ELSE IF Len(go_mod.lines[ModuleLine]) < 2 THEN Raises("IndexError")
  ELSE LET module_path == go_mod.lines[ModuleLine][2]
           rel == SubSeq(target, Len(module_path) + 1, Len(target))
           pkg_dir == Join(root, Components(rel))
       IN IF StartsWith(target, module_path) /\ IsDir(pkg_dir)
          THEN Returns(<<pkg_dir>>)
          ELSE Returns(<<>>)

\* Lines 354-383: resolve_import_to_file; <<>> is None, <<path>> a path.
ResolveImportToFile(target, source_file, root, language) ==
  IF language = "python"
  THEN Returns(ResolvePythonImport(target, source_file, root))
  ELSE IF language = "go" THEN ResolveGoImport(target, root)
  ELSE Returns(<<>>)   \* the tree holds no file of another language

\* ------------------------------------------------------------------------
\* build_import_graph (circular-deps.py 41-90) over walk_source_files
\* (ignore.py 121-151)
\* ------------------------------------------------------------------------

\* The sequences that list the set S once each.
Orders(S) == {o \in [1..Cardinality(S) -> S] : Range(o) = S}

DictAddBothWays(d, k, v) ==
  [x \in (DOMAIN d) \cup {k, v} |->
     (IF x \in DOMAIN d THEN d[x] ELSE {})
       \cup (IF x = k THEN {v} ELSE {}) \cup (IF x = v THEN {k} ELSE {})]

\* forward[rel].add(target_rel), reverse[target_rel].add(rel) on a
\* defaultdict(set).
DictAdd(d, k, v) ==
  [x \in (DOMAIN d) \cup {k} |->
     IF x = k THEN (IF k \in DOMAIN d THEN d[k] ELSE {}) \cup {v} ELSE d[x]]

DictEnsureNothing(d, k) == d

DictEnsureReset(d, k) == DictSet(d, k, {})

\* Lines 63-64, 87-88: a key that is new to the dict d comes last in its
\* order.
KeysEnsure(keys, d, k) == IF k \in DOMAIN d THEN keys ELSE Append(keys, k)

\* Lines 63-64, 87-88: if k not in forward: forward[k] = set().
DictEnsure(d, k) == IF k \in DOMAIN d THEN d ELSE DictSet(d, k, {})

SkipNothing(imp) == FALSE

\* Lines 73-74: type-only imports are skipped.
SkipTypeOnly(imp) == imp.is_type_only

ReverseAddNothing(rev, target_rel, rel) == rev

ReverseAddEnsureSource(rev, target_rel, rel) ==
  DictEnsure(DictAdd(rev, target_rel, rel), rel)

\* Line 84: reverse[target_rel].add(rel).
ReverseAdd(rev, target_rel, rel) == DictAdd(rev, target_rel, rel)

\* ignore.py 140-145: os.walk hands over the next directory; the ignored
\* subdirectories are pruned, the others are visited after this one, in the
\* order of the listing.  The files that lines 149-150 let through are
\* yielded one by one, in the order of the listing.
WalkDir ==
  /\ bpc = "walk"
  /\ UNCHANGED nonBuildVars
  /\ walk_files = {}
  /\ walk_todo # <<>>
  /\ LET dirpath == Head(walk_todo)
         dirnames == {d \in Dirnames(dirpath) :
                        ~ShouldIgnore(d, DEFAULT_IGNORE_PATTERNS, Root)}
     IN /\ \E order \in Orders(dirnames) :
             walk_todo' = order \o Tail(walk_todo)
        /\ walk_files' = {f \in Filenames(dirpath) :
                            WalkYields(f, DEFAULT_IGNORE_PATTERNS, Root)}
  /\ UNCHANGED <<treeVars, bpc, forward, forward_keys, reverse, errors, fpath,
                 imports>>

\* ignore.py 151 and circular-deps.py 56-70: the walk yields its next
\* file; when its language is known, the node is registered and its
\* imports are extracted.
WalkFile ==
  /\ bpc = "walk"
  /\ UNCHANGED nonBuildVars
  /\ \E f \in walk_files :
       /\ walk_files' = walk_files \ {f}
       /\ LET lang == DetectLanguage(f)
              rel == Relpath(f, Root)
              got == ExtractImports(f, lang)
          IN IF lang = None
             THEN UNCHANGED <<bpc, forward, forward_keys, errors, fpath, imports>>
             ELSE /\ forward' = DictEnsure(forward, rel)
                  /\ forward_keys' = KeysEnsure(forward_keys, forward, rel)
                  /\ IF got.raised # ""
                     THEN /\ errors' = Append(errors, [file |-> rel,
                                                       error |-> got.raised])
                          /\ UNCHANGED <<bpc, fpath, imports>>
                     ELSE /\ imports' = got.value
                          /\ fpath' = IF got.value = <<>> THEN <<>> ELSE f
                          /\ bpc' = IF got.value = <<>> THEN "walk"
                                    ELSE "imports"
                          /\ UNCHANGED errors
  /\ UNCHANGED <<treeVars, reverse, walk_todo>>

\* Lines 72-88: one iteration of `for imp in imports`.  An exception of
\* is_internal_import or resolve_import_to_file is caught nowhere: it
\* leaves build_import_graph, analyze and main.
ForImport ==
  /\ bpc = "imports"
  /\ UNCHANGED nonBuildVars
  /\ LET imp == Head(imports)
         lang == DetectLanguage(fpath)
         rel == Relpath(fpath, Root)
         internal == IsInternalImport(imp.target, Root, fpath, lang)
         resolved == ResolveImportToFile(imp.target, fpath, Root, lang)
         more == Tail(imports) # <<>>
         continue == /\ imports' = Tail(imports)
                     /\ fpath' = IF more THEN fpath ELSE <<>>
                     /\ bpc' = IF more THEN "imports" ELSE "walk"
     IN IF SkipTypeOnly(imp)
        THEN continue /\ UNCHANGED <<forward, forward_keys, reverse>>
        ELSE IF internal.raised # "" \/ (internal.value /\ resolved.raised # "")
        THEN /\ bpc' = "raised"
             /\ UNCHANGED <<forward, forward_keys, reverse, fpath, imports>>
        ELSE IF ~internal.value \/ resolved.value = <<>>
        THEN continue /\ UNCHANGED <<forward, forward_keys, reverse>>
        ELSE LET target_rel == Relpath(resolved.value[1], Root) IN
             /\ forward' = DictEnsure(DictAdd(forward, rel, target_rel),
                                      target_rel)
             /\ forward_keys' = KeysEnsure(forward_keys, forward, target_rel)
             /\ reverse' = ReverseAdd(reverse, target_rel, rel)
             /\ continue
  /\ UNCHANGED <<treeVars, errors, walk_todo, walk_files>>

\* Line 90: the walk is exhausted; the graph and the errors are returned.
BuildReturn ==
  /\ bpc = "walk"
  /\ UNCHANGED nonBuildVars
  /\ walk_files = {}
  /\ walk_todo = <<>>
  /\ bpc' = "returned"
  /\ UNCHANGED <<treeVars, forward, forward_keys, reverse, errors, walk_todo,
                 walk_files,
                 fpath, imports>>

\* ------------------------------------------------------------------------
\* Specification of the graph builder over the project trees
\* ------------------------------------------------------------------------

\* The import targets a Python file of the tree may name: a, pkg.b, .b,
\* ..a, os, pkg.zz, build.c.
PyTargets ==
  {<<"a">>, <<"pkg", "b">>, <<"", "b">>, <<"", "", "a">>, <<"os">>,
   <<"pkg", "zz">>, <<"build", "c">>}

PyStmts == [target : PyTargets, guard : {"none", "tc", "else"}]

\* The import paths a Go file of the tree may name: m/pkg, m, fmt.
GoTargets == {<<"m", "pkg">>, <<"m">>, <<"fmt">>}

GoStmts == [target : GoTargets, guard : {"none"}]

\* The texts of a file within a budget of n: a readable file with up to n
\* statements; or, for one unit of the budget, a file that is unreadable,
\* that the parser rejects (SyntaxError) or that it fails on (another
\* exception).
Texts(stmts, n, statuses) ==
  {[status |-> "ok", stmts |-> t] : t \in [1..n -> stmts]}
    \cup (IF n = 1 THEN {[status |-> st, stmts |-> <<>>] : st \in statuses}
          ELSE {})

\* go.mod: absent, unreadable, "module m", or a "module " line with no path.
GoMods ==
  {[state |-> "absent", lines |-> <<>>],
   [state |-> "unreadable", lines |-> <<>>],
   [state |-> "file", lines |-> << <<"module", <<"m">>>>, <<"go", <<"1">>>> >>],
   [state |-> "file", lines |-> << <<"go", <<"1">>>>, <<"module">> >>]}

InitBuild ==
  /\ \E na, nb, ng \in 0..MaxImports :
       /\ na + nb + ng <= MaxImports
       /\ \E ta \in Texts(PyStmts, na,
                          {"unreadable", "syntax_error", "parse_raises"}),
             tb \in Texts(PyStmts, nb,
                          {"unreadable", "syntax_error", "parse_raises"}),
             tg \in Texts(GoStmts, ng, {"unreadable"}) :
            source = [f \in Scanned |->
                        IF f = APy THEN ta ELSE IF f = BPy THEN tb ELSE tg]
       \* go.mod is read only to classify and resolve a Go import
       /\ go_mod \in IF ng = 0 THEN {[state |-> "absent", lines |-> <<>>]}
                     ELSE GoMods
  /\ bpc = "walk"
  /\ forward = EmptyDict
  /\ forward_keys = <<>>
  /\ reverse = EmptyDict
  /\ errors = <<>>
  /\ walk_todo = <<Root>>
  /\ walk_files = {}
  /\ fpath = <<>>
  /\ imports = <<>>
  /\ CyclesIdle
  /\ GodIdle
  /\ LayerIdle
  /\ WriteIdle
  /\ AnalyzeIdle
  /\ CallIdle

NextBuild ==
  \/ WalkDir
  \/ WalkFile
  \/ ForImport
  \/ BuildReturn

SpecBuild == InitBuild /\ [][NextBuild]_vars

\* ------------------------------------------------------------------------
\* Claims about the graph builder
\* ------------------------------------------------------------------------

\* forward holds the edge a -> b.
ForwardEdge(a, b) == a \in DOMAIN forward /\ b \in forward[a]

\* reverse records a as an importer of b.
ReverseEdge(a, b) == b \in DOMAIN reverse /\ a \in reverse[b]

\* Every node named anywhere in the two maps.
GraphNodes ==
  (DOMAIN forward) \cup (DOMAIN reverse)
    \cup UNION {forward[a] : a \in DOMAIN forward}
    \cup UNION {reverse[b] : b \in DOMAIN reverse}

\* No file is half processed: the walk is between two files, or over.
BetweenFiles == bpc \in {"walk", "returned"}

\* C1: between two files and when build_import_graph has returned, reverse
\* is the transpose of forward: b is in forward[a] exactly when a is in
\* reverse[b].
C1_ReverseIsTranspose ==
  BetweenFiles =>
    \A a, b \in GraphNodes : ForwardEdge(a, b) <=> ReverseEdge(a, b)

\* The graph was returned with two files importing each other.
C1_Witness ==
  /\ bpc = "returned"
  /\ ForwardEdge(Relpath(APy, Root), Relpath(BPy, Root))
  /\ ForwardEdge(Relpath(BPy, Root), Relpath(APy, Root))
  /\ ReverseEdge(Relpath(APy, Root), Relpath(BPy, Root))

\* The records extract_imports gives for a scanned file.
RecordsOf(f) ==
  LET got == ExtractImports(f, DetectLanguage(f)) IN
  IF got.raised # "" THEN <<>> ELSE got.value

\* The record imp of file f is classified internal and resolves to node b.
ResolvesTo(f, imp, b) ==
  LET lang == DetectLanguage(f)
      internal == IsInternalImport(imp.target, Root, f, lang)
      resolved == ResolveImportToFile(imp.target, f, Root, lang)
  IN /\ internal.raised = "" /\ internal.value
     /\ resolved.raised = "" /\ resolved.value # <<>>
     /\ b = Relpath(resolved.value[1], Root)

\* The readable Python files all of whose imports are in the body of an
\* `if TYPE_CHECKING:`.
OnlyTypeChecking ==
  {f \in Scanned :
     /\ DetectLanguage(f) = "python"
     /\ source[f].status = "ok"
     /\ source[f].stmts # <<>>
     /\ \A i \in 1..Len(source[f].stmts) : source[f].stmts[i].guard = "tc"}

\* C5: a file with only type-checking-guarded imports has no outgoing edge;
\* every edge of forward and of reverse comes from a record of its source
\* file that is not type-only and resolves to its target; and every node is
\* a scanned file or the target of such an edge.
C5_TypeOnlyAddsNothing ==
  /\ \A f \in OnlyTypeChecking :
       Relpath(f, Root) \in DOMAIN forward => forward[Relpath(f, Root)] = {}
  /\ \A a, b \in GraphNodes :
       (ForwardEdge(a, b) \/ ReverseEdge(a, b)) =>
         \E f \in Scanned :
           /\ a = Relpath(f, Root)
           /\ \E i \in 1..Len(RecordsOf(f)) :
                /\ ~RecordsOf(f)[i].is_type_only
                /\ ResolvesTo(f, RecordsOf(f)[i], b)
  /\ \A n \in GraphNodes :
       \/ n \in {Relpath(f, Root) : f \in Scanned}
       \/ \E a \in GraphNodes : ForwardEdge(a, n)

\* pkg/b.py holds `from ..a import x` under `if TYPE_CHECKING:` and the
\* same import in an else branch in a.py's direction is absent: the graph
\* is returned without an edge from pkg/b.py.
C5_Witness ==
  /\ bpc = "returned"
  /\ source[BPy].status = "ok"
  /\ source[BPy].stmts = <<[target |-> <<"", "", "a">>, guard |-> "tc"]>>
  /\ source[APy].stmts = <<[target |-> <<"pkg", "b">>, guard |-> "else"]>>
  /\ forward[Relpath(BPy, Root)] = {}
  /\ forward[Relpath(APy, Root)] = {Relpath(BPy, Root)}

\* The files whose processing fails: unreadable, rejected by the parser, or
\* the parser fails on them.
FailedFiles == {f \in Scanned : source[f].status # "ok"}

\* C10: no failure while processing one file aborts the run (no exception
\* leaves build_import_graph), and when the graph is returned every file
\* whose processing failed has an entry in errors.
C10_FileFailuresIsolated ==
  /\ bpc # "raised"
  /\ bpc = "returned" =>
       \A f \in FailedFiles :
         \E i \in 1..Len(errors) : errors[i].file = Relpath(f, Root)

\* ------------------------------------------------------------------------
\* detect_god_modules (circular-deps.py 189-219)
\*
\* The median of integers is an integer or an integer plus one half, and so
\* are its product with 3.0 and the threshold: median_degree and threshold
\* hold twice their value, which keeps the arithmetic exact.
\* ------------------------------------------------------------------------

\* Number of keys of the reverse graph handed to detect_god_modules.
MaxGodNodes == 4

\* The defaults of line 190.
threshold_multiplier == 3

min_importers == 5

\* The in-degrees the reverse graphs are drawn from.
Degrees == (1..7) \cup {20}

\* in_degrees = {node: len(importers) ...}
InDegrees(rg) == [i \in DOMAIN rg |-> Cardinality(rg[i])]

\* sorted(data) on a list of integers.
RECURSIVE Sorted(_)
Sorted(data) ==
  IF data = <<>> THEN <<>>
  ELSE LET x == data[Len(data)]
           s == Sorted(SubSeq(data, 1, Len(data) - 1))
           k == Cardinality({i \in 1..Len(s) : s[i] <= x})
       IN  SubSeq(s, 1, k) \o <<x>> \o SubSeq(s, k + 1, Len(s))

\* sorted(<set>) on a set of integers.
RECURSIVE SortedSet(_)
SortedSet(S) ==
  IF S = {} THEN <<>>
  ELSE LET m == CHOOSE x \in S : \A y \in S : x <= y
       IN  <<m>> \o SortedSet(S \ {m})

\* statistics.median(values), in halves: the middle element of the sorted
\* data, or the mean of the two middle elements.
Median(values) ==
  LET data == Sorted(values)
      n == Len(data)
      i == n \div 2
  IN  IF n % 2 = 1 THEN 2 * data[i + 1] ELSE data[i] + data[i + 1]

\* max(median_degree * threshold_multiplier, min_importers), in halves.
Threshold(median) == Max(median * threshold_multiplier, 2 * min_importers)

\* sorted(in_degrees.items(), key=lambda x: -x[1]): the keys by descending
\* degree; the sort is stable, equal degrees keep the dict order.
RECURSIVE SortedItems(_, _)
SortedItems(in_degrees, n) ==
  IF n = 0 THEN <<>>
  ELSE LET s == SortedItems(in_degrees, n - 1)
           k == Cardinality({i \in 1..Len(s) :
                               in_degrees[s[i]] >= in_degrees[n]})
       IN  SubSeq(s, 1, k) \o <<n>> \o SubSeq(s, k + 1, Len(s))

ExceedsOrEquals(degree, thr) == 2 * degree >= thr

\* degree > threshold (threshold in halves)
Exceeds(degree, thr) == 2 * degree > thr

\* round(x, 1) of a value with at most one decimal digit, in halves.
Round1(halves) == halves

\* Lines 196-206 and the sort of line 209.
GodStart ==
  /\ gpc = "start"
  /\ LET in_degrees == InDegrees(reverse_graph)
     IN  IF in_degrees = <<>>
         THEN /\ gpc' = "returned"
              /\ UNCHANGED <<median_degree, threshold, god_todo>>
         ELSE /\ median_degree' = Median(in_degrees)
              /\ threshold' = Threshold(Median(in_degrees))
              /\ god_todo' = SortedItems(in_degrees, Len(in_degrees))
              /\ gpc' = "for"
  /\ UNCHANGED <<reverse_graph, god_modules>>
  /\ UNCHANGED nonGodVars

\* One iteration of `for module, degree in sorted(...)` (lines 209-217).
GodFor ==
  /\ gpc = "for"
  /\ god_todo # <<>>
  /\ LET module == Head(god_todo)
         degree == Cardinality(reverse_graph[module])
     IN  god_modules' =
           IF Exceeds(degree, threshold)
           THEN Append(god_modules,
                       [file |-> module,
                        importer_count |-> degree,
                        importers |-> SortedSet(reverse_graph[module]),
                        median_in_degree |-> Round1(median_degree),
                        threshold |-> Round1(threshold)])
           ELSE god_modules
  /\ god_todo' = Tail(god_todo)
  /\ UNCHANGED <<gpc, reverse_graph, median_degree, threshold>>
  /\ UNCHANGED nonGodVars

\* return god_modules (line 219)
GodReturn ==
  /\ gpc = "for"
  /\ god_todo = <<>>
  /\ gpc' = "returned"
  /\ UNCHANGED <<reverse_graph, median_degree, threshold, god_todo,
                 god_modules>>
  /\ UNCHANGED nonGodVars

\* detect_god_modules is called on a reverse graph as build_import_graph
\* returns it: every key has at least one importer (line 84 creates a key
\* only to add an importer to it).
InitGod ==
  /\ \E n \in 0..MaxGodNodes :
       reverse_graph \in [1..n -> {1..d : d \in Degrees}]
  /\ gpc = "start"
  /\ median_degree = 0
  /\ threshold = 0
  /\ god_todo = <<>>
  /\ god_modules = <<>>
  /\ CyclesIdle
  /\ BuildIdle
  /\ LayerIdle
  /\ WriteIdle
  /\ AnalyzeIdle
  /\ CallIdle

NextGod ==
  \/ GodStart
  \/ GodFor
  \/ GodReturn

SpecGod == InitGod /\ [][NextGod]_vars

\* ------------------------------------------------------------------------
\* Claims about detect_god_modules
\* ------------------------------------------------------------------------

InDegree(i) == Cardinality(reverse_graph[i])

\* The keys whose in-degree is at most / at least v.
AtMost(v) == Cardinality({i \in DOMAIN reverse_graph : InDegree(i) <= v})

AtLeast(v) == Cardinality({i \in DOMAIN reverse_graph : InDegree(i) >= v})

\* Twice the median of the in-degrees: the sum of the lower and the upper
\* median (which are equal for an odd number of keys).
MedianTwice ==
  LET n == Len(reverse_graph)
      vals == {InDegree(i) : i \in DOMAIN reverse_graph}
      lower == CHOOSE v \in vals :
                 /\ 2 * AtMost(v) >= n
                 /\ \A w \in vals : 2 * AtMost(w) >= n => v <= w
      upper == CHOOSE v \in vals :
                 /\ 2 * AtLeast(v) >= n
                 /\ \A w \in vals : 2 * AtLeast(w) >= n => w <= v
  IN  lower + upper

\* The keys whose in-degree is strictly greater than
\* max(median x 3.0, 5).
OverThreshold ==
  IF reverse_graph = <<>> THEN {}
  ELSE {i \in DOMAIN reverse_graph :
          2 * InDegree(i) > Max(3 * MedianTwice, 2 * 5)}

Reported == {god_modules[j].file : j \in 1..Len(god_modules)}

ReportedExactly(S) ==
  /\ Reported = S
  /\ Len(god_modules) = Cardinality(S)

\* Key i has in-degree 20 and every other key has in-degree at most 2.
Outlier(i) ==
  /\ InDegree(i) = 20
  /\ \A j \in DOMAIN reverse_graph : j # i => InDegree(j) <= 2

\* C6 as stated: the reported nodes are exactly those over the threshold,
\* and a node of in-degree 20 among nodes of in-degree at most 2 is the one
\* node reported.
C6_OutlierAlwaysReported ==
  gpc = "returned" =>
    /\ ReportedExactly(OverThreshold)
    /\ \A i \in DOMAIN reverse_graph : Outlier(i) => ReportedExactly({i})

\* C6 (amended): the reported nodes are exactly those whose in-degree is
\* strictly greater than max(median x 3.0, 5), the median taken over the
\* keys of the reverse graph; a node of in-degree 20 among nodes of
\* in-degree at most 2 is the one node reported when at least two other
\* nodes have an importer (the median is then at most 2).
C6_GodModulesExact ==
  gpc = "returned" =>
    /\ ReportedExactly(OverThreshold)
    /\ \A i \in DOMAIN reverse_graph :
         Outlier(i) /\ Len(reverse_graph) >= 3 => ReportedExactly({i})

\* A node imported by 20 files next to three nodes imported by 1, 2 and 2
\* files: detect_god_modules has returned that node alone.
C6_Witness ==
  /\ gpc = "returned"
  /\ Len(reverse_graph) = 4
  /\ Outlier(3)
  /\ InDegree(1) = 1
  /\ ReportedExactly({3})
  /\ god_modules[1].threshold = 2 * 6

\* ------------------------------------------------------------------------
\* detect_layering_violations (circular-deps.py 228-278)
\* ------------------------------------------------------------------------

\* Number of edges of the graphs handed to detect_layering_violations.
MaxLayerEdges == 2

LAYER_KEYWORDS ==
  [k \in {"utils", "util", "helpers", "helper", "lib", "common",
          "shared"} |-> 0]
  @@ [k \in {"core", "models", "types", "schemas", "entities"} |-> 1]
  @@ [k \in {"services", "tools", "providers", "repositories",
             "repo"} |-> 2]
  @@ [k \in {"agents", "handlers", "controllers", "views", "routes"} |-> 3]
  @@ [k \in {"orchestration", "pipeline", "workflows", "app",
             "commands"} |-> 4]
  @@ [k \in {"config", "settings", "constants"} |-> 0]
  @@ [k \in {"tests", "test", "__tests__", "spec"} |-> -1]

\* part.lower() in LAYER_KEYWORDS: no keyword holds a dot, so only a
\* one-piece component can be one.
IsKeyword(part) == Len(part) = 1 /\ Lower(part[1]) \in DOMAIN LAYER_KEYWORDS

LastKeyword(file_path) ==
  IF \E i \in 1..Len(file_path) : IsKeyword(file_path[i])
  THEN CHOOSE i \in 1..Len(file_path) :
         /\ IsKeyword(file_path[i])
         /\ \A j \in (i + 1)..Len(file_path) : ~IsKeyword(file_path[j])
  ELSE 0

\* The first part of Path(file_path).parts that is a keyword, 0 if none.
FirstKeyword(file_path) ==
  IF \E i \in 1..Len(file_path) : IsKeyword(file_path[i])
  THEN CHOOSE i \in 1..Len(file_path) :
         /\ IsKeyword(file_path[i])
         /\ \A j \in 1..(i - 1) : ~IsKeyword(file_path[j])
  ELSE 0

\* _infer_layer: <<>> is None, <<n>> the layer n.
InferLayer(file_path) ==
  LET i == FirstKeyword(file_path)
  IN  IF i = 0 THEN <<>> ELSE <<LAYER_KEYWORDS[Lower(file_path[i][1])]>>

\* _layer_name: the part as written, or "unknown".
LayerName(file_path) ==
  LET i == FirstKeyword(file_path)
  IN  IF i = 0 THEN "unknown" ELSE file_path[i][1]

\* `layer is None or layer == -1`
SkippedLayer(layer) == layer = <<>> \/ layer[1] = -1

LayerDiffers(source_layer, target_layer) == source_layer # target_layer

\* source_layer < target_layer
LayerBelow(source_layer, target_layer) == source_layer < target_layer

\* The files of the graphs, in the order the builder met them.
LayerFiles ==
  << << <<"utils">>, <<"u", "py">> >>,
     << <<"app">>, <<"main", "py">> >>,
     << <<"core">>, <<"m", "py">> >>,
     << <<"tests">>, <<"utils">>, <<"t", "py">> >>,
     << <<"x">>, <<"y", "py">> >>,
     << <<"Utils">>, <<"app">>, <<"z", "py">> >>,
     << <<"a", "py">> >>,
     << <<"utils">>, <<"tests">>, <<"v", "py">> >> >>

\* The graph of a set of edges, as build_import_graph returns it: both ends
\* of every edge are keys.
GraphOf(E) ==
  [f \in {e[1] : e \in E} \cup {e[2] : e \in E} |->
     {e[2] : e \in {d \in E : d[1] = f}}]

\* for source, targets in graph.items() (lines 256-259)
LayerForSource ==
  /\ lpc = "for_source"
  /\ layer_keys # <<>>
  /\ LET src == Head(layer_keys)
     IN  IF SkippedLayer(InferLayer(src)) \/ layer_graph[src] = {}
         THEN UNCHANGED <<lpc, layer_source, layer_targets>>
         ELSE /\ lpc' = "for_target"
              /\ layer_source' = <<src>>
              /\ layer_targets' = layer_graph[src]
  /\ layer_keys' = Tail(layer_keys)
  /\ UNCHANGED <<layer_graph, violations>>
  /\ UNCHANGED nonLayerVars

LayerForTargetPopping ==
  /\ lpc = "for_target"
  /\ \E target \in layer_targets :
       /\ layer_graph' = [layer_graph EXCEPT ![layer_source[1]] = @ \ {target}]
       /\ layer_targets' = layer_targets \ {target}
       /\ IF layer_targets = {target}
          THEN lpc' = "for_source" /\ layer_source' = <<>>
          ELSE UNCHANGED <<lpc, layer_source>>
  /\ UNCHANGED <<layer_keys, violations>>
  /\ UNCHANGED nonLayerVars

\* for target in targets (lines 261-276); targets is a set.
LayerForTarget ==
  /\ lpc = "for_target"
  /\ \E target \in layer_targets :
       LET src == layer_source[1]
           source_layer == InferLayer(src)
           target_layer == InferLayer(target)
       IN  /\ violations' =
                IF /\ ~SkippedLayer(target_layer)
                   /\ LayerBelow(source_layer[1], target_layer[1])
                THEN Append(violations,
                            [source |-> src,
                             source_layer |-> source_layer[1],
                             target |-> target,
                             target_layer |-> target_layer[1],
                             description |->
                               <<LayerName(src), LayerName(target)>>])
                ELSE violations
           /\ layer_targets' = layer_targets \ {target}
           /\ IF layer_targets = {target}
              THEN lpc' = "for_source" /\ layer_source' = <<>>
              ELSE UNCHANGED <<lpc, layer_source>>
  /\ UNCHANGED <<layer_graph, layer_keys>>
  /\ UNCHANGED nonLayerVars

\* return violations (line 278)
LayerReturn ==
  /\ lpc = "for_source"
  /\ layer_keys = <<>>
  /\ lpc' = "returned"
  /\ UNCHANGED <<layer_graph, layer_keys, layer_source, layer_targets,
                 violations>>
  /\ UNCHANGED nonLayerVars

\* The sets of at most n edges between the files.
RECURSIVE EdgeSets(_)
EdgeSets(n) ==
  IF n = 0 THEN {{}}
  ELSE LET smaller == EdgeSets(n - 1)
       IN  smaller \cup
           {E \cup {e} : E \in smaller,
                         e \in Range(LayerFiles) \X Range(LayerFiles)}

InitLayer ==
  /\ \E E \in EdgeSets(MaxLayerEdges) : layer_graph = GraphOf(E)
  /\ layer_keys = SelectSeq(LayerFiles, LAMBDA f : f \in DOMAIN layer_graph)
  /\ lpc = "for_source"
  /\ layer_source = <<>>
  /\ layer_targets = {}
  /\ violations = <<>>
  /\ CyclesIdle
  /\ BuildIdle
  /\ GodIdle
  /\ WriteIdle
  /\ AnalyzeIdle
  /\ CallIdle

NextLayer ==
  \/ LayerForSource
  \/ LayerForTarget
  \/ LayerReturn

SpecLayer == InitLayer /\ [][NextLayer]_vars

\* ------------------------------------------------------------------------
\* Claims about detect_layering_violations
\* ------------------------------------------------------------------------

LayerEdge(a, b) == a \in DOMAIN layer_graph /\ b \in layer_graph[a]

\* The file has a known layer that is not the test layer.
KnownLayer(f) == InferLayer(f) # <<>> /\ InferLayer(f)[1] # -1

\* How many violations are reported for the edge (a, b).
ViolationsFor(a, b) ==
  Cardinality({i \in 1..Len(violations) :
                 violations[i].source = a /\ violations[i].target = b})

UtilityFile == << <<"utils">>, <<"u", "py">> >>

OrchestrationFile == << <<"app">>, <<"main", "py">> >>

\* C7: when detect_layering_violations returns, an edge (s, t) whose ends
\* both have a known non-test layer with layer(s) < layer(t) has exactly one
\* violation, and any other pair has none; an edge from a utility-layer
\* file to an orchestration-layer file is flagged, the reverse edge is not.
C7_LayeringExact ==
  lpc = "returned" =>
    /\ \A a \in Range(LayerFiles) : \A b \in Range(LayerFiles) :
         ViolationsFor(a, b) =
           IF /\ LayerEdge(a, b)
              /\ KnownLayer(a)
              /\ KnownLayer(b)
              /\ InferLayer(a)[1] < InferLayer(b)[1]
           THEN 1 ELSE 0
    /\ LayerEdge(UtilityFile, OrchestrationFile) =>
         ViolationsFor(UtilityFile, OrchestrationFile) = 1
    /\ ViolationsFor(OrchestrationFile, UtilityFile) = 0
    /\ \A i \in 1..Len(violations) :
         LayerEdge(violations[i].source, violations[i].target)

\* utils/u.py and app/main.py import each other: the one violation
\* reported is the edge from utils/u.py (layer 0) to app/main.py (layer 4).
C7_Witness ==
  /\ lpc = "returned"
  /\ LayerEdge(UtilityFile, OrchestrationFile)
  /\ LayerEdge(OrchestrationFile, UtilityFile)
  /\ Len(violations) = 1
  /\ violations[1].source = UtilityFile
  /\ violations[1].source_layer = 0
  /\ violations[1].target_layer = 4

\* ------------------------------------------------------------------------
\* main: writing the report (circular-deps.py 365-368)
\*
\* json.dump hands the document to f.write chunk by chunk; the file object
\* buffers what it is given and hands it to the operating system when its
\* buffer fills and when the file is closed.  A process that is killed
\* loses what is still in the buffer.
\* ------------------------------------------------------------------------

\* Number of entries of each list of the report.
MaxReportItems == 1

\* The lists of the report, in the order of the dict of lines 324-334.
ReportLists == <<"cycles", "god_modules", "layering_violations", "errors">>

\* The reports analyze can return, by the length of each list.
Reports == [Range(ReportLists) -> 0..MaxReportItems]

\* The chunks of one list: its key and opening bracket, its items, its
\* closing bracket.
ListChunks(key, n) ==
  <<[key |-> key, chunk |-> "["]>>
  \o [i \in 1..n |-> [key |-> key, chunk |-> "item"]]
  \o <<[key |-> key, chunk |-> "]"]>>

\* The chunks json.dump(result, f, indent=2) writes, in order.
RECURSIVE DumpLists(_, _)
DumpLists(report, i) ==
  IF i > Len(ReportLists) THEN <<>>
  ELSE ListChunks(ReportLists[i], report[ReportLists[i]])
       \o DumpLists(report, i + 1)

JsonDump(report) ==
  <<[key |-> "", chunk |-> "{"], [key |-> "graph_stats", chunk |-> "{}"]>>
  \o DumpLists(report, 1)
  \o <<[key |-> "", chunk |-> "}"]>>

\* What f has been given so far: the file was emptied when it was opened.
Written == Len(output_file[1]) + Len(buffer)

\* open(output_path, "w", encoding="utf-8") (line 367): the file is
\* created, or emptied when it exists.
MainOpen ==
  /\ wpc = "open"
  /\ output_file' = << <<>> >>
  /\ wpc' = "dump"
  /\ UNCHANGED <<result, buffer>>
  /\ UNCHANGED nonWriteVars

\* json.dump: one fp.write(chunk) (line 368)
JsonDumpWrite ==
  /\ wpc = "dump"
  /\ Written < Len(JsonDump(result[1]))
  /\ buffer' = Append(buffer, JsonDump(result[1])[Written + 1])
  /\ UNCHANGED <<wpc, result, output_file>>
  /\ UNCHANGED nonWriteVars

\* The file object hands its buffer to the operating system.
Flush ==
  /\ wpc = "dump"
  /\ buffer # <<>>
  /\ output_file' = <<output_file[1] \o buffer>>
  /\ buffer' = <<>>
  /\ UNCHANGED <<wpc, result>>
  /\ UNCHANGED nonWriteVars

\* The end of the with block of line 367: the file is flushed and closed.
Close ==
  /\ wpc = "dump"
  /\ Written = Len(JsonDump(result[1]))
  /\ output_file' = <<output_file[1] \o buffer>>
  /\ buffer' = <<>>
  /\ wpc' = "closed"
  /\ UNCHANGED result
  /\ UNCHANGED nonWriteVars

\* The process is killed while main is at line 367 or 368.
Interrupt ==
  /\ wpc \in {"open", "dump"}
  /\ wpc' = "killed"
  /\ buffer' = <<>>
  /\ UNCHANGED <<result, output_file>>
  /\ UNCHANGED nonWriteVars

\* main has the report of analyze; the output path holds nothing or the
\* report of an earlier run.
InitWrite ==
  /\ result \in {<<r>> : r \in Reports}
  /\ output_file \in {<<>>} \cup {<<JsonDump(r)>> : r \in Reports}
  /\ buffer = <<>>
  /\ wpc = "open"
  /\ CyclesIdle
  /\ BuildIdle
  /\ GodIdle
  /\ LayerIdle
  /\ AnalyzeIdle
  /\ CallIdle

NextWrite ==
  \/ MainOpen
  \/ JsonDumpWrite
  \/ Flush
  \/ Close
  \/ Interrupt

SpecWrite == InitWrite /\ [][NextWrite]_vars

\* ------------------------------------------------------------------------
\* Claims about the report file
\* ------------------------------------------------------------------------

\* The output path holds a whole document.
WholeDocument == \E r \in Reports : output_file[1] = JsonDump(r)

\* C9: at no point during or after a run, interrupted or not, does the
\* output path hold a partially written document: it is absent or holds a
\* whole report.
C9_NeverPartial == output_file = <<>> \/ WholeDocument

\* ------------------------------------------------------------------------
\* More claims about the graph builder
\* ------------------------------------------------------------------------

\* The Python files on which ast.parse fails: it rejects the text
\* (SyntaxError) or fails with another exception.
ParserFailed ==
  {f \in Scanned : source[f].status \in {"syntax_error", "parse_raises"}}

\* C11: when the graph is returned, every file on which the structural
\* parser failed has an entry in errors and is a node with no outgoing
\* edge.
C11_ParseFailureSurfaced ==
  bpc = "returned" =>
    \A f \in ParserFailed :
      /\ \E i \in 1..Len(errors) : errors[i].file = Relpath(f, Root)
      /\ Relpath(f, Root) \in DOMAIN forward
      /\ forward[Relpath(f, Root)] = {}

\* C12: no file that matches an ignore pattern is ever a node of the graph,
\* neither as a source nor as the target of an import.
C12_IgnoredFilesVanish ==
  \A f \in RegularFiles :
    ShouldIgnore(f, DEFAULT_IGNORE_PATTERNS, Root) =>
      Relpath(f, Root) \notin GraphNodes

\* ------------------------------------------------------------------------
\* analyze (circular-deps.py 296-334), from the graph of build_import_graph
\* on: the cycle detector, detect_god_modules, detect_layering_violations
\* and the graph statistics, one after the other.
\* ------------------------------------------------------------------------

\* The file that node i of the forward graph names.
NodeFile(i) == LayerFiles[i]

\* The nodes of g that import node n.
Importers(g, n) == {m \in DOMAIN g : n \in g[m]}

\* The reverse graph build_import_graph returns with the forward graph g:
\* its keys are the nodes that have an importer (circular-deps.py 84).
ReverseGraphOf(g) ==
  LET keys == SelectSeq([i \in 1..Cardinality(DOMAIN g) |-> i],
                        LAMBDA n : Importers(g, n) # {})
  IN  [i \in 1..Len(keys) |-> Importers(g, keys[i])]

\* sum(len(targets) for targets in forward_graph.values())
RECURSIVE TotalEdges(_, _)
TotalEdges(g, n) ==
  IF n = 0 THEN 0 ELSE Cardinality(g[n]) + TotalEdges(g, n - 1)

\* round(num / den, 1), in tenths.  A tie is rounded to the even tenth; with
\* the few files of the model a tie is a multiple of 1/4, which a float
\* holds exactly.
RoundRatio1(num, den) ==
  LET q == (10 * num) \div den
      r == (10 * num) % den
  IN  IF 2 * r < den THEN q
      ELSE IF 2 * r > den THEN q + 1
      ELSE IF q % 2 = 0 THEN q ELSE q + 1

AvgUnguarded(total_edges, total_files) ==
  IF total_files = 0 THEN Raises("ZeroDivisionError")
  ELSE Returns(RoundRatio1(total_edges, total_files))

\* round(total_edges / total_files, 1) if total_files else 0 (line 328),
\* in tenths.
AvgImportsPerFile(total_edges, total_files) ==
  IF total_files # 0 THEN Returns(RoundRatio1(total_edges, total_files))
  ELSE Returns(0)

\* god_modules = detect_god_modules(reverse_graph) (line 315)
AnalyzeGodModules ==
  /\ apc = "cycles"
  /\ pc = "done"
  /\ gpc = "idle"
  /\ reverse_graph' = ReverseGraphOf(graph)
  /\ gpc' = "start"
  /\ apc' = "god_modules"
  /\ UNCHANGED <<median_degree, threshold, god_todo, god_modules,
                 graph_stats>>
  /\ UNCHANGED <<cycleVars, buildVars, layerVars, writeVars, callVars>>

\* layering_violations = detect_layering_violations(forward_graph)
\* (line 318)
AnalyzeLayering ==
  /\ apc = "god_modules"
  /\ gpc = "returned"
  /\ lpc = "idle"
  /\ layer_graph' = [f \in {NodeFile(n) : n \in DOMAIN graph} |->
                       LET n == CHOOSE m \in DOMAIN graph : NodeFile(m) = f
                       IN  {NodeFile(t) : t \in graph[n]}]
  /\ layer_keys' = [i \in 1..Len(graph_keys) |-> NodeFile(graph_keys[i])]
  /\ lpc' = "for_source"
  /\ apc' = "layering"
  /\ UNCHANGED <<layer_source, layer_targets, violations, graph_stats>>
  /\ UNCHANGED <<cycleVars, buildVars, godVars, writeVars, callVars>>

\* Lines 320-334: the graph statistics and the returned dict.
AnalyzeReturn ==
  /\ apc = "layering"
  /\ lpc = "returned"
  /\ LET total_files == Cardinality(DOMAIN graph)
         total_edges == TotalEdges(graph, total_files)
         avg == AvgImportsPerFile(total_edges, total_files)
     IN  IF avg.raised # ""
         THEN apc' = "raised" /\ UNCHANGED graph_stats
         ELSE /\ graph_stats' = <<[total_files |-> total_files,
                                   total_edges |-> total_edges,
                                   avg_imports_per_file |-> avg.value]>>
              /\ apc' = "returned"
  /\ UNCHANGED <<cycleVars, buildVars, godVars, layerVars, writeVars,
                 callVars>>

\* analyze has the forward graph and the reverse graph of the builder.
InitAnalyze ==
  /\ \E n \in 0..MaxNodes :
       /\ graph \in Graphs(n)
       /\ graph_keys = [i \in 1..n |-> i]
  /\ CyclesStart
  /\ apc = "cycles"
  /\ graph_stats = <<>>
  /\ BuildIdle
  /\ GodIdle
  /\ LayerIdle
  /\ WriteIdle
  /\ CallIdle

NextAnalyze ==
  \/ TarjanLoop
  \/ ForNeighbor
  \/ AfterCall
  \/ CloseNode
  \/ TarjanReturn
  \/ ExtractCall
  \/ ForStart
  \/ While
  \/ ForNbr
  \/ AnalyzeCyclesDone
  \/ AnalyzeGodModules
  \/ GodStart
  \/ GodFor
  \/ GodReturn
  \/ AnalyzeLayering
  \/ LayerForSource
  \/ LayerForTarget
  \/ LayerReturn
  \/ AnalyzeReturn

SpecAnalyze == InitAnalyze /\ [][NextAnalyze]_vars

\* ------------------------------------------------------------------------
\* Claims about analyze
\* ------------------------------------------------------------------------

\* The forward graph has no edge: it is empty or holds isolated files only.
NoEdges == \A n \in DOMAIN graph : graph[n] = {}

\* C13: on a graph without edges (the empty graph, or files that import
\* nothing) nothing raises and every detector returns an empty result:
\* tarjan_scc no component, analyze no cycle, detect_god_modules and
\* detect_layering_violations an empty list, and the statistics are
\* total_files = the number of files, total_edges = 0 and
\* avg_imports_per_file = 0.
C13_EmptyInputEmptyResult ==
  /\ apc # "raised"
  /\ NoEdges =>
       /\ TarjanReturned => sccs = <<>>
       /\ pc = "done" => cycles = <<>>
       /\ gpc = "returned" => god_modules = <<>>
       /\ lpc = "returned" => violations = <<>>
       /\ apc = "returned" =>
            graph_stats = <<[total_files |-> Cardinality(DOMAIN graph),
                             total_edges |-> 0,
                             avg_imports_per_file |-> 0]>>

\* analyze has returned for the empty graph: no file, no edge, average 0.
C13_Witness ==
  /\ apc = "returned"
  /\ DOMAIN graph = {}
  /\ sccs = <<>>
  /\ god_modules = <<>>
  /\ violations = <<>>
  /\ graph_stats[1].total_files = 0
  /\ graph_stats[1].avg_imports_per_file = 0

\* ------------------------------------------------------------------------
\* More claims about the cycle detector
\* ------------------------------------------------------------------------

\* The list of files is an elementary cycle of the graph: no file repeats,
\* each file has an edge to the next and the last has an edge to the first.
IsCycle(c) ==
  /\ c # <<>>
  /\ Cardinality(Range(c)) = Len(c)
  /\ \A j \in 1..(Len(c) - 1) : c[j + 1] \in graph[c[j]]
  /\ c[1] \in graph[c[Len(c)]]

\* The length of a shortest cycle through n (0 if n lies on no cycle): the
\* least k such that n is reached from n by k edges.
RECURSIVE CycleLength(_, _, _)
CycleLength(S, n, k) ==
  IF n \in Succ(S) THEN k
  ELSE IF k >= Cardinality(Nodes) THEN 0
  ELSE CycleLength(Succ(S), n, k + 1)

ShortestCycle(n) == CycleLength({n}, n, 1)

\* d is c read from another of its files on.
Rotation(c, d) ==
  /\ Len(c) = Len(d)
  /\ \E r \in 0..(Len(c) - 1) :
       \A j \in 1..Len(c) : d[j] = c[((j - 1 + r) % Len(c)) + 1]

\* The elementary cycles of at least two files.
ElementaryCycles ==
  {c \in UNION {[1..k -> Nodes] : k \in 2..Cardinality(Nodes)} : IsCycle(c)}

\* The file lists of the reported cycles.
ReportedCycles == {cycles[i].files : i \in 1..Len(cycles)}

\* C14: a file that is a strongly connected component by itself is reported
\* as a cycle exactly when it has an edge to itself.
C14_SelfLoopIsCycle ==
  pc = "done" =>
    \A n \in Nodes :
      SccOf(n) = {n} => (<<n>> \in ReportedCycles <=> n \in graph[n])

\* C19: every reported cycle of a component of at most 5 files is an
\* elementary cycle inside the component and is a shortest cycle through
\* its first file; no two reported cycles visit the same set of files.
C19_CyclesElementaryShortest ==
  pc = "done" =>
    /\ \A c \in ReportedCycles :
         /\ IsCycle(c)
         /\ Range(c) \subseteq SccOf(c[1])
         /\ Len(c) = ShortestCycle(c[1])
    /\ \A i, j \in 1..Len(cycles) :
         i # j => Range(cycles[i].files) # Range(cycles[j].files)

C15_NodesRegistered ==
  bpc = "returned" =>
    /\ \A f \in Scanned : Relpath(f, Root) \in DOMAIN forward
    /\ \A a \in DOMAIN forward : forward[a] \subseteq DOMAIN forward

\* The parser failed on a.py and pkg/b.py imports the file build/c.py the
\* walk never yields: a.py is a node without edges and build/c.py is a node.
C15_Witness ==
  /\ bpc = "returned"
  /\ source[APy].status = "parse_raises"
  /\ forward[Relpath(APy, Root)] = {}
  /\ forward[Relpath(BPy, Root)] = {Relpath(CPy, Root)}
  /\ Relpath(CPy, Root) \in DOMAIN forward
  /\ forward[Relpath(MGo, Root)] = {}

\* The next import of the loop is `import pkg.zz`, not type-only: pkg is a
\* directory of the root, so the import is internal, and the tree holds
\* neither pkg/zz/__init__.py nor pkg/zz.py, so it cannot be resolved.
UnresolvedNext ==
  /\ bpc = "imports"
  /\ Head(imports).target = <<"pkg", "zz">>
  /\ ~Head(imports).is_type_only

\* C16: the step that processes an internal import that cannot be resolved
\* changes neither forward nor reverse nor errors, and goes on with the
\* remaining imports of the file (or, after the last one, with the walk).
C16_UnresolvedLeavesNoTrace ==
  [][UnresolvedNext =>
       /\ forward' = forward
       /\ reverse' = reverse
       /\ errors' = errors
       /\ imports' = Tail(imports)
       /\ bpc' = IF Tail(imports) # <<>> THEN "imports" ELSE "walk"]_vars

\* a.py holds `import pkg.zz` and then `import pkg.b`: the graph is
\* returned with the one edge a.py -> pkg/b.py and without an error.
C16_Witness ==
  /\ bpc = "returned"
  /\ source[APy].status = "ok"
  /\ source[APy].stmts = <<[target |-> <<"pkg", "zz">>, guard |-> "none"],
                           [target |-> <<"pkg", "b">>, guard |-> "none"]>>
  /\ forward[Relpath(APy, Root)] = {Relpath(BPy, Root)}
  /\ DOMAIN forward = {Relpath(f, Root) : f \in Scanned}
  /\ DOMAIN reverse = {Relpath(BPy, Root)}
  /\ errors = <<>>

\* ------------------------------------------------------------------------
\* _resolve_python_import called on its own (imports.py 386-417), over
\* trees that hold a package pkg with a subpackage sub
\* ------------------------------------------------------------------------

\* The largest number of leading dots of the imports resolved.
MaxDots == 3

\* The importing file pkg/sub/mod.py.
ModPy == Join(Root, << <<"pkg">>, <<"sub">>, <<"mod", "py">> >>)

\* The files a tree may hold under the names sibling and pkg.
SiblingFiles ==
  {Join(Root, << <<"pkg">>, <<"sibling">>, <<"__init__", "py">> >>),
   Join(Root, << <<"pkg">>, <<"sibling", "py">> >>),
   Join(Root, << <<"pkg">>, <<"sub">>, <<"sibling", "py">> >>),
   Join(Root, << <<"sibling">>, <<"__init__", "py">> >>),
   Join(Root, << <<"sibling", "py">> >>),
   << <<"sibling", "py">> >>}

\* n dots followed by the dotted name.
Dotted(n, names) == [i \in 1..n |-> ""] \o names

\* _resolve_python_import(target, source_file, root)
CallResolvePythonImport ==
  /\ call # <<>>
  /\ ret = <<>>
  /\ ret' = <<ResolvePythonImport(call[1].target, call[1].source_file,
                                  call[1].root)>>
  /\ UNCHANGED <<extra_files, call>>
  /\ UNCHANGED nonCallVars

InitResolve ==
  /\ \E more \in SUBSET SiblingFiles : extra_files = {ModPy} \cup more
  /\ \E n \in 1..MaxDots, names \in {<<"sibling">>, <<"sub", "sibling">>},
        f \in {ModPy, BPy, APy} :
       call = <<[target |-> Dotted(n, names), source_file |-> f,
                 root |-> Root]>>
  /\ ret = <<>>
  /\ CyclesIdle
  /\ BuildIdle
  /\ GodIdle
  /\ LayerIdle
  /\ WriteIdle
  /\ AnalyzeIdle

NextResolve == CallResolvePythonImport

SpecResolve == InitResolve /\ [][NextResolve]_vars

\* ------------------------------------------------------------------------
\* Claims about _resolve_python_import
\* ------------------------------------------------------------------------

\* The number of leading dots of the import, and the names after them.
LeadingDots(target) ==
  Cardinality({i \in 1..Len(target) : \A j \in 1..i : target[j] = ""})

NamesOf(target) == SubSeq(target, LeadingDots(target) + 1, Len(target))

\* The directory k levels above the directory of the file (the top of the
\* file system is its own parent).
LevelsUp(file, k) == SubSeq(file, 1, Max(0, Len(file) - 1 - k))

\* The module the import names: n - 1 levels above the directory of the
\* importing file, then down the names.
NamedModule(target, file) ==
  LevelsUp(file, LeadingDots(target) - 1)
    \o [i \in 1..Len(NamesOf(target)) |-> <<NamesOf(target)[i]>>]

PackageIndex(module) == module \o << <<"__init__", "py">> >>

ModuleFile(module) ==
  SubSeq(module, 1, Len(module) - 1)
    \o << Append(module[Len(module)], "py") >>

\* C17: a relative import with n leading dots is resolved n - 1 levels
\* above the directory of the importing file and then down the named path,
\* to the package index when it exists, else to the module file of that
\* name, else to nothing; `..sibling` from pkg/sub/mod.py resolves under
\* pkg/sibling.
C17_RelativeImportResolution ==
  ret # <<>> =>
    LET module == NamedModule(call[1].target, call[1].source_file)
    IN  /\ ret[1] = IF PackageIndex(module) \in RegularFiles
                    THEN <<PackageIndex(module)>>
                    ELSE IF ModuleFile(module) \in RegularFiles
                    THEN <<ModuleFile(module)>>
                    ELSE <<>>
        /\ (call[1].target = Dotted(2, <<"sibling">>)
              /\ call[1].source_file = ModPy)
             => module = Join(Root, << <<"pkg">>, <<"sibling">> >>)

\* `..sibling` is imported from pkg/sub/mod.py in a tree that holds
\* pkg/sibling/__init__.py, pkg/sibling.py and pkg/sub/sibling.py: the
\* import has resolved to pkg/sibling/__init__.py.
C17_Witness ==
  /\ ret = << <<Join(Root, << <<"pkg">>, <<"sibling">>,
                               <<"__init__", "py">> >>)>> >>
  /\ call[1].target = <<"", "", "sibling">>
  /\ call[1].source_file = ModPy
  /\ Join(Root, << <<"pkg">>, <<"sibling", "py">> >>) \in extra_files
  /\ Join(Root, << <<"pkg">>, <<"sub">>, <<"sibling", "py">> >>)
       \in extra_files

\* ------------------------------------------------------------------------
\* should_ignore called on its own (ignore.py 62-99)
\* ------------------------------------------------------------------------

\* Number of patterns of the lists handed to should_ignore.
MaxPatterns == 2

\* The patterns docs/*.md, node_modules, *.md and docs/ (whose trailing
\* slash line 88 strips).
IgnorePatterns ==
  {DirStarDot("docs", "md"), Name("node_modules"), StarDot("md"),
   Name("docs")}

\* The paths tested, relative to the root.
IgnorePaths ==
  {<< <<"docs">>, <<"foo", "md">> >>,
   << <<"docs">>, <<"sub">>, <<"foo", "md">> >>,
   << <<"docs">>, <<"foo", "py">> >>,
   << <<"docs">> >>,
   << <<"x">>, <<"docs">>, <<"foo", "md">> >>,
   << <<"foo", "md">> >>,
   << <<"node_modules">> >>,
   << <<"node_modules">>, <<"x", "js">> >>,
   << <<"a">>, <<"node_modules">>, <<"x", "js">> >>,
   << <<"a">>, <<"b">>, <<"node_modules">>, <<"p">>, <<"x", "js">> >>,
   << <<"a">>, <<"x", "js">> >>}

\* should_ignore(path, patterns, root)
CallShouldIgnore ==
  /\ call # <<>>
  /\ ret = <<>>
  /\ ret' = <<ShouldIgnore(call[1].path, call[1].patterns, call[1].root)>>
  /\ UNCHANGED <<extra_files, call>>
  /\ UNCHANGED nonCallVars

InitIgnore ==
  /\ extra_files = {}
  /\ \E rel \in IgnorePaths, n \in 1..MaxPatterns :
       \E patterns \in [1..n -> IgnorePatterns] :
         call = <<[path |-> Join(Root, rel), patterns |-> patterns,
                   root |-> Root]>>
  /\ ret = <<>>
  /\ CyclesIdle
  /\ BuildIdle
  /\ GodIdle
  /\ LayerIdle
  /\ WriteIdle
  /\ AnalyzeIdle

NextIgnore == CallShouldIgnore

SpecIgnore == InitIgnore /\ [][NextIgnore]_vars

\* ------------------------------------------------------------------------
\* Claims about should_ignore
\* ------------------------------------------------------------------------

\* should_ignore was called on the root-relative path rel with the one
\* pattern given.
IgnoreCalled(rel, pattern) ==
  /\ ret # <<>>
  /\ call[1].path = Join(Root, rel)
  /\ call[1].patterns = <<pattern>>

\* C18: with the pattern docs/*.md alone should_ignore returns true for
\* docs/foo.md and false for docs/sub/foo.md; with the pattern node_modules
\* alone it returns true exactly for the paths that have a component named
\* node_modules, at any depth.
C18_StarStaysInDirectory ==
  /\ IgnoreCalled(<< <<"docs">>, <<"foo", "md">> >>,
                  DirStarDot("docs", "md")) => ret[1] = TRUE
  /\ IgnoreCalled(<< <<"docs">>, <<"sub">>, <<"foo", "md">> >>,
                  DirStarDot("docs", "md")) => ret[1] = FALSE
  /\ \A rel \in IgnorePaths :
       IgnoreCalled(rel, Name("node_modules")) =>
         ret[1] = (\E i \in 1..Len(rel) : rel[i] = <<"node_modules">>)


\* ------------------------------------------------------------------------
\* Specification of tarjan_scc alone, run to its return
\* ------------------------------------------------------------------------

\* Line 136: the recursion limit tarjan_scc configures.
RecursionLimit == Max(10000, Len(graph_keys) * 2)

\* Lines 98-142: the steps of one call of tarjan_scc.
NextTarjan ==
  \/ TarjanLoop
  \/ ForNeighbor
  \/ AfterCall
  \/ CloseNode
  \/ TarjanReturn

\* The interpreter runs the call without pausing for ever: a step that can
\* be taken is taken.
SpecTarjan == InitCycles /\ [][NextTarjan]_vars /\ WF_vars(NextTarjan)

\* The nesting depth of strongconnect.
Depth == Len(frames)

\* The graph is a single chain through all its nodes, in some order.
IsChain ==
  /\ EdgeCount(graph) = Cardinality(Nodes) - 1
  /\ \E n \in Nodes : Reach(n) = Nodes

TarjanSafe ==
  /\ \A n \in DOMAIN entered : entered[n] <= 1
  /\ Depth <= Cardinality(Nodes)
  /\ Depth < RecursionLimit
  /\ TarjanReturned =>
       /\ \A n \in Nodes : n \in DOMAIN entered /\ entered[n] = 1
       /\ stack = <<>>
       /\ DOMAIN index = Nodes
       /\ \A C \in StrongComponents :
            Cardinality(C) > 1 =>
              Cardinality({i \in 1..Len(sccs) : Range(sccs[i]) = C}) = 1
       /\ \A i \in 1..Len(sccs) :
            /\ Range(sccs[i]) \in StrongComponents
            /\ Len(sccs[i]) = Cardinality(Range(sccs[i]))
            /\ Len(sccs[i]) > 1

\* C21: tarjan_scc returns on every graph; strongconnect is entered at most
\* once per node while it runs and exactly once per node when it has
\* returned; the nesting depth of strongconnect never exceeds the number of
\* nodes and stays below the configured recursion limit; and the returned
\* list holds each component of more than one node once, whole, and nothing
\* else.
C21_TarjanTerminates == []TarjanSafe /\ <>TarjanReturned

\* A chain through all the nodes, at the moment the traversal is as deep as
\* the graph has nodes.
C21_Witness ==
  /\ pc = "tarjan"
  /\ IsChain
  /\ Cardinality(Nodes) = MaxNodes
  /\ Depth = Cardinality(Nodes)


\* The root-relative path rel names a file inside the project root: it does
\* not climb out of it.
InsideRoot(rel) == \A i \in 1..Len(rel) : rel[i] # <<"..">>

\* C22: every node and every edge target of the two maps is a path inside
\* the project root; no import creates a node or an edge for a file outside
\* it.
C22_NodesInsideRoot == \A n \in GraphNodes : InsideRoot(n)


\* The file lies under the project root.
UnderRoot(f) == Len(f) > Len(Root) /\ SubSeq(f, 1, Len(Root)) = Root

\* The files of the project that are not ignored and whose extension the
\* language classifier recognises.
RecognizedFiles ==
  {f \in RegularFiles :
     /\ UnderRoot(f)
     /\ ~ShouldIgnore(f, DEFAULT_IGNORE_PATTERNS, Root)
     /\ DetectLanguage(f) # None}

\* C23: when build_import_graph has returned, every non-ignored file of the
\* project whose extension maps to a supported language, compared without
\* regard to case, is a node of the graph.
C23_RecognizedFilesAreNodes ==
  bpc = "returned" =>
    \A f \in RecognizedFiles : Relpath(f, Root) \in DOMAIN forward


\* ------------------------------------------------------------------------
\* Claims about _infer_layer
\* ------------------------------------------------------------------------

\* The layer of the first keyword found when the components are walked from
\* the root towards the file name; <<>> when none is one.
RECURSIVE LayerWalk(_)
LayerWalk(parts) ==
  IF parts = <<>> THEN <<>>
  ELSE IF Len(Head(parts)) = 1 /\ Lower(Head(parts)[1]) \in DOMAIN LAYER_KEYWORDS
  THEN <<LAYER_KEYWORDS[Lower(Head(parts)[1])]>>
  ELSE LayerWalk(Tail(parts))

TestsUtilsFile == << <<"tests">>, <<"utils">>, <<"t", "py">> >>

UtilsTestsFile == << <<"utils">>, <<"tests">>, <<"v", "py">> >>

\* The file is the source or the target of a reported violation.
InViolation(f) ==
  \E i \in 1..Len(violations) :
    violations[i].source = f \/ violations[i].target = f

\* C24: the layers detect_layering_violations works with are those of the
\* first keyword component from the root, compared without regard to case:
\* every reported violation carries these layers; a file with no keyword
\* component, and the file under tests/utils/, is in no violation; an edge
\* from the file under utils/tests/ to a file of a higher layer is reported
\* with source layer 0.
C24_FirstKeywordDecides ==
  /\ \A i \in 1..Len(violations) :
       /\ <<violations[i].source_layer>> = LayerWalk(violations[i].source)
       /\ <<violations[i].target_layer>> = LayerWalk(violations[i].target)
  /\ \A f \in Range(LayerFiles) : LayerWalk(f) = <<>> => ~InViolation(f)
  /\ ~InViolation(TestsUtilsFile)
  /\ lpc = "returned" =>
       \A f \in Range(LayerFiles) :
         (LayerEdge(UtilsTestsFile, f) /\ LayerWalk(f) # <<>> /\ LayerWalk(f)[1] > 0)
           => \E i \in 1..Len(violations) :
                /\ violations[i].source = UtilsTestsFile
                /\ violations[i].target = f
                /\ violations[i].source_layer = 0

\* utils/tests/v.py imports app/main.py and is imported by tests/utils/t.py:
\* the first edge is the one violation.
C24_Witness ==
  /\ lpc = "returned"
  /\ LayerEdge(UtilsTestsFile, OrchestrationFile)
  /\ LayerEdge(TestsUtilsFile, UtilsTestsFile)
  /\ Len(violations) = 1
  /\ violations[1].source = UtilsTestsFile
  /\ violations[1].source_layer = 0


\* ------------------------------------------------------------------------
\* Claims about walk_source_files
\* ------------------------------------------------------------------------

\* A component of the root-relative path, or the path as a whole, matches
\* one of the ignore patterns.
MatchesIgnorePattern(path) ==
  LET rel == Relpath(path, Root) IN
  \E i \in 1..Len(DEFAULT_IGNORE_PATTERNS) :
    \/ \E j \in 1..Len(rel) : FnmatchPart(rel[j], DEFAULT_IGNORE_PATTERNS[i])
    \/ FnmatchRel(rel, DEFAULT_IGNORE_PATTERNS[i])

\* The path is an ignored directory of the project or lies below one.
InIgnoredSubtree(path) ==
  \E n \in (Len(Root) + 1)..Len(path) :
    LET dir == SubSeq(path, 1, n) IN
    IsDir(dir) /\ MatchesIgnorePattern(dir)

BuildDir == Join(Root, << <<"build">> >>)

\* C25: the walk never holds, as a directory still to visit or as a file
\* to yield or yielded, anything in the subtree of an ignored directory;
\* every file it yields has no component and no root-relative path that
\* matches an ignore pattern.  (A directory is visited only when it is the
\* first of the directories still to visit.)
C25_IgnoredSubtreesPruned ==
  /\ \A i \in 1..Len(walk_todo) : ~InIgnoredSubtree(walk_todo[i])
  /\ \A f \in walk_files :
       ~InIgnoredSubtree(f) /\ ~MatchesIgnorePattern(f)
  /\ fpath # <<>> => ~InIgnoredSubtree(fpath) /\ ~MatchesIgnorePattern(fpath)

\* The root was visited: build/, which holds c.py and gen/d.py, was pruned
\* and only pkg/ is left to visit, while the files of the root are yielded.
C25_Witness ==
  /\ bpc = "walk"
  /\ IsDir(BuildDir)
  /\ MatchesIgnorePattern(BuildDir)
  /\ InIgnoredSubtree(DPy)
  /\ walk_todo = <<Join(Root, << <<"pkg">> >>)>>
  /\ walk_files # {}


\* ------------------------------------------------------------------------
\* Claims about the graph under the analyses
\* ------------------------------------------------------------------------

\* The graph detect_layering_violations was given has the files and the
\* edges of the forward graph.
SameAsForward ==
  /\ DOMAIN layer_graph = {NodeFile(n) : n \in DOMAIN graph}
  /\ \A n \in DOMAIN graph :
       layer_graph[NodeFile(n)] = {NodeFile(t) : t \in graph[n]}

\* The reverse graph detect_god_modules was given is the transpose of the
\* forward graph: its entries are the importer sets of the imported files.
TransposeOfForward ==
  /\ \A i \in DOMAIN reverse_graph :
       \E n \in DOMAIN graph :
         reverse_graph[i] = {m \in DOMAIN graph : n \in graph[m]}
  /\ Len(reverse_graph)
       = Cardinality({n \in DOMAIN graph : \E m \in DOMAIN graph : n \in graph[m]})

GraphUntouched ==
  /\ graph' = graph
  /\ graph_keys' = graph_keys
  /\ gpc # "idle" => reverse_graph' = reverse_graph
  /\ lpc # "idle" => layer_graph' = layer_graph
  /\ gpc' # "idle" => TransposeOfForward'
  /\ lpc' # "idle" => SameAsForward'

\* C26: no step of tarjan_scc, extract_cycles_from_scc, detect_god_modules
\* or detect_layering_violations changes the forward or the reverse graph
\* (same keys, same adjacency sets): each analysis works on the graph as
\* it was built, whatever ran before it.
C26_GraphImmutable == [][GraphUntouched]_vars

\* analyze has returned after the three analyses ran on a graph with a
\* cycle: the graph still has its edges.
C26_Witness ==
  /\ apc = "returned"
  /\ cycles # <<>>
  /\ EdgeCount(graph) >= 2
  /\ SameAsForward
  /\ TransposeOfForward


\* ------------------------------------------------------------------------
\* The graph as a function of the tree alone
\* ------------------------------------------------------------------------

\* The nodes the imports of file f lead to: one for each record that is not
\* type-only, is classified internal and resolves.
TargetsOf(f) ==
  {b \in {Relpath(g, Root) : g \in RegularFiles \cup {Dirname(h) : h \in RegularFiles}} :
     \E i \in 1..Len(RecordsOf(f)) :
       /\ ~RecordsOf(f)[i].is_type_only
       /\ ResolvesTo(f, RecordsOf(f)[i], b)}

ExpectedTargets == UNION {TargetsOf(f) : f \in Scanned}

ExpectedForward ==
  [n \in {Relpath(f, Root) : f \in Scanned} \cup ExpectedTargets |->
     UNION {TargetsOf(f) : f \in {g \in Scanned : Relpath(g, Root) = n}}]

ExpectedReverse ==
  [b \in ExpectedTargets |->
     {Relpath(f, Root) : f \in {g \in Scanned : b \in TargetsOf(g)}}]

ExpectedErrors ==
  {[file |-> Relpath(f, Root),
    error |-> ExtractImports(f, DetectLanguage(f)).raised] :
     f \in {g \in Scanned : ExtractImports(g, DetectLanguage(g)).raised # ""}}

SearchOver == pc = "extract" /\ ex.at = "while" /\ (ex.queue = <<>> \/ ex.found)

\* extract_cycles_from_scc is about to return for a small component.
AboutToReturn ==
  pc = "extract" /\ ex.at = "for_start" /\ ex.start_i > Len(ex.scc)

\* The files on the cycles found so far in the running call.
FilesOnFound == UNION {Range(ex.cycles[i]) : i \in 1..Len(ex.cycles)}

\* C28: in a component of 2 to 5 files returned by tarjan_scc the search
\* from each member ends by finding a cycle back to it, after which the
\* member lies on a cycle found; so when extract_cycles_from_scc returns
\* the list of cycles found is not empty (the whole-component fallback is
\* not taken) and every member is on a cycle of the list, and in the
\* finished analysis every member of such a component is on a reported
\* cycle made of files of that component.
C28_FallbackNeverTaken ==
  /\ SearchOver =>
       /\ ex.found
       /\ ex.scc[ex.start_i] \in FilesOnFound
  /\ AboutToReturn =>
       /\ ex.cycles # <<>>
       /\ FilesOnFound = Range(ex.scc)
  /\ pc = "done" =>
       \A i \in 1..Len(sccs) :
         (2 <= Len(sccs[i]) /\ Len(sccs[i]) <= SmallScc) =>
           \A n \in Range(sccs[i]) :
             \E j \in 1..Len(cycles) :
               /\ n \in Range(cycles[j].files)
               /\ Range(cycles[j].files) \subseteq Range(sccs[i])

\* A component of three files in which the search from the last member
\* finds a cycle over files already recorded: the call returns one cycle.
C28_Witness ==
  /\ AboutToReturn
  /\ Len(ex.scc) = 3
  /\ Len(ex.cycles) = 1
  /\ Len(ex.cycles[1]) = 3


\* ------------------------------------------------------------------------
\* Specification of analyze from the tree to the cycle list
\* (circular-deps.py 301-312): build_import_graph, then tarjan_scc and
\* extract_cycles_from_scc on the forward graph it returned
\* ------------------------------------------------------------------------

\* Number of import statements in the files of a tree.
MaxPipelineImports == 3

\* The imports of the Python files: pkg.b, ..a, build.c, at the top level.
PipelinePyStmts ==
  [target : {<<"pkg", "b">>, <<"", "", "a">>, <<"build", "c">>},
   guard : {"none"}]

\* The imports of the Go file: m/pkg, fmt.
PipelineGoStmts == [target : {<<"m", "pkg">>, <<"fmt">>}, guard : {"none"}]

\* Lines 302-305: build_import_graph has returned; tarjan_scc is called on
\* the forward graph, whose keys it iterates in their order of insertion.
AnalyzeCycles ==
  /\ bpc = "returned"
  /\ pc = "idle"
  /\ graph' = forward
  /\ graph_keys' = forward_keys
  /\ pc' = "tarjan"
  /\ UNCHANGED <<tarjanVars, extractVars, prev_cycles>>
  /\ UNCHANGED nonCycleVars

InitPipeline ==
  /\ \E na, nb, ng \in 0..MaxPipelineImports :
       /\ na + nb + ng <= MaxPipelineImports
       /\ \E ta \in Texts(PipelinePyStmts, na, {}),
             tb \in Texts(PipelinePyStmts, nb, {}),
             tg \in Texts(PipelineGoStmts, ng, {}) :
            source = [f \in Scanned |->
                        IF f = APy THEN ta ELSE IF f = BPy THEN tb ELSE tg]
       /\ go_mod \in IF ng = 0 THEN {[state |-> "absent", lines |-> <<>>]}
                     ELSE GoMods
  /\ bpc = "walk"
  /\ forward = EmptyDict
  /\ forward_keys = <<>>
  /\ reverse = EmptyDict
  /\ errors = <<>>
  /\ walk_todo = <<Root>>
  /\ walk_files = {}
  /\ fpath = <<>>
  /\ imports = <<>>
  /\ CyclesIdle
  /\ GodIdle
  /\ LayerIdle
  /\ WriteIdle
  /\ AnalyzeIdle
  /\ CallIdle

NextPipeline ==
  \/ WalkDir
  \/ WalkFile
  \/ ForImport
  \/ BuildReturn
  \/ AnalyzeCycles
  \/ TarjanLoop
  \/ ForNeighbor
  \/ AfterCall
  \/ CloseNode
  \/ TarjanReturn
  \/ ExtractCall
  \/ ForStart
  \/ While
  \/ ForNbr
  \/ AnalyzeCyclesDone

SpecPipeline == InitPipeline /\ [][NextPipeline]_vars

\* ------------------------------------------------------------------------
\* Claims about the files of the reported cycles
\* ------------------------------------------------------------------------

\* The nodes of the files the walk yields and the classifier recognises:
\* files of the project outside every ignored subtree, matching no ignore
\* pattern, with a source extension and a supported language.
ScannedNodes ==
  {Relpath(f, Root) :
     f \in {g \in RegularFiles :
              /\ UnderRoot(g)
              /\ ~InIgnoredSubtree(g)
              /\ ~MatchesIgnorePattern(g)
              /\ Splitext1(g[Len(g)]) \in ALL_SOURCE_EXTENSIONS
              /\ DetectLanguage(g) # None}}

\* The nodes that are in the graph only because an import resolved to them.
TargetOnlyNodes == (DOMAIN forward) \ ScannedNodes

\* C29: a node that was registered only as the target of an import has no
\* outgoing edge, and every file of every cycle recorded by analyze is the
\* node of a file that was scanned itself.
C29_CyclesOfScannedFiles ==
  /\ \A n \in TargetOnlyNodes : forward[n] = {}
  /\ \A i \in 1..Len(cycles) : Range(cycles[i].files) \subseteq ScannedNodes
  /\ \A i \in 1..Len(sccs) : Range(sccs[i]) \subseteq ScannedNodes

\* a.py and pkg/b.py import each other and a file on the cycle also imports
\* a node that no scan registered (an ignored file, a file above the root
\* or a package directory): the one cycle reported is the two files.
C29_Witness ==
  /\ pc = "done"
  /\ Len(cycles) = 1
  /\ Range(cycles[1].files) = {Relpath(APy, Root), Relpath(BPy, Root)}
  /\ \E n \in TargetOnlyNodes :
       \E m \in Range(cycles[1].files) : n \in forward[m]


\* ------------------------------------------------------------------------
\* Specification of the reverse map, from its construction by
\* build_import_graph to its use by detect_god_modules: a run of the builder
\* on a project tree, or a run of the detector on a reverse graph of the
\* shape the builder returns
\* ------------------------------------------------------------------------

InitReverse == InitBuild \/ InitGod

NextReverse ==
  \/ WalkDir
  \/ WalkFile
  \/ ForImport
  \/ BuildReturn
  \/ GodStart
  \/ GodFor
  \/ GodReturn

SpecReverse == InitReverse /\ [][NextReverse]_vars

\* detect_god_modules has computed the median and the threshold.
MedianComputed == gpc \in {"for", "returned"} /\ Len(reverse_graph) > 0

\* C30: every key of the reverse map the builder fills has at least one
\* importer; on such a map the median in-degree detect_god_modules computes
\* is at least 1 and the threshold at least 5 (both are held in halves), and
\* every god module reported has at least 6 importers, listed without
\* repetition, with importer_count the length of the list.
C30_NoEmptyReverseEntries ==
  /\ \A b \in DOMAIN reverse : reverse[b] # {}
  /\ \A i \in DOMAIN reverse_graph : reverse_graph[i] # {}
  /\ MedianComputed =>
       /\ median_degree >= 2 * 1
       /\ threshold >= 2 * 5
  /\ \A i \in 1..Len(god_modules) :
       /\ god_modules[i].importer_count >= 6
       /\ Len(god_modules[i].importers) = god_modules[i].importer_count
       /\ Cardinality(Range(god_modules[i].importers))
            = god_modules[i].importer_count
       /\ Range(god_modules[i].importers)
            = reverse_graph[god_modules[i].file]

\* A node with 6 importers next to nodes with one importer is reported:
\* the median is 1 and the threshold 5.
C30_Witness ==
  /\ gpc = "returned"
  /\ Len(god_modules) = 1
  /\ god_modules[1].importer_count = 6
  /\ median_degree = 2 * 1
  /\ threshold = 2 * 5

====
